---- MODULE Spec2Model ----
(***************************************************************************)
(* Idempotent checkout: the Lambda handler of POST /checkout               *)
(* (src/handlers/checkout.ts), the order service on a DynamoDB table keyed *)
(* by cartId (src/services/order.ts), server-side pricing                  *)
(* (src/services/pricing.ts) and the payment gateway                       *)
(* (src/services/payment.ts).                                              *)
(*                                                                         *)
(* One step of the model is one atomic moment of the system: a store       *)
(* request being applied by the table, or the gateway deciding a capture,  *)
(* together with the synchronous code of the handler that follows it up to *)
(* the next await.  Invocations interleave freely at those awaits.         *)
(* Money is in whole cents, time is in hours.                              *)
(***************************************************************************)
EXTENDS Integers, Sequences, FiniteSets, TLC

\* ------------------------------------------------------------------ bounds
MaxInv == 3          \* handler invocations in one behaviour
MaxStoreFail == 1    \* store requests that fail with a storage error
MaxTicks == 1        \* retention windows that elapse

\* ------------------------------------------------------- program constants
TTL_HOURS == 24
TAX_RATE_PCT == 10

Inv == 1..MaxInv
Carts == {"cart-1", "cart-2"}
\* A failure set that misses one of the three tokens.
FAILURE_TOKENS_Two == {"tok_fail", "tok_declined"}
FAILURE_TOKENS == {"tok_fail", "tok_declined", "tok_insufficient_funds"}
Tokens == {"tok_valid", "tok_fail"}

Widget == [productId |-> "p1", name |-> "Widget", price |-> 2999, quantity |-> 2]
Cable == [productId |-> "p2", name |-> "Cable", price |-> 999, quantity |-> 1]
ItemLists == {<<Widget, Cable>>, <<Cable>>}

\* The parsed request bodies the clients send: every valid body for the first
\* cart, one body with an empty cart, and one valid body for the second cart.
Bodies ==
  [cartId : {"cart-1"}, items : ItemLists, paymentToken : Tokens]
    \cup {[cartId |-> "cart-1", items |-> <<>>, paymentToken |-> "tok_valid"],
          [cartId |-> "cart-2", items |-> <<Cable>>, paymentToken |-> "tok_valid"]}

\* The numbers of the requests are whole (cents, counts) but for two: the
\* double Infinity, which JSON.parse returns for 1e999 and which is written as
\* an integer above every other number, and a quantity with a decimal part,
\* written as its whole part under quantity and its tenths under "tenths".
Infinity == 2147483647

\* Items and bodies that fail validation past the empty cart: items with
\* quantity 0, price 0, price Infinity and quantity 1.5, and a body without
\* its paymentToken.
Nothing == [productId |-> "p3", name |-> "Nothing", price |-> 500, quantity |-> 0]
Free == [productId |-> "p4", name |-> "Free", price |-> 0, quantity |-> 1]
Priceless == [productId |-> "p5", name |-> "Priceless", price |-> Infinity, quantity |-> 1]
Half == [productId |-> "p6", name |-> "Half", price |-> 1000, quantity |-> 1, tenths |-> 5]
MalformedBodies ==
  {[cartId |-> "cart-1", items |-> <<Cable>>],
   [cartId |-> "cart-1", items |-> <<Cable, Nothing>>, paymentToken |-> "tok_valid"],
   [cartId |-> "cart-1", items |-> <<Free>>, paymentToken |-> "tok_valid"],
   [cartId |-> "cart-1", items |-> <<Priceless>>, paymentToken |-> "tok_valid"],
   [cartId |-> "cart-1", items |-> <<Cable, Half>>, paymentToken |-> "tok_valid"]}

\* event.body: absent, a text that is no JSON, or the JSON text of a value
\* (a JSON text is represented by the value it denotes).
NoBody == [kind |-> "absent"]
BadJson == [kind |-> "text"]
Json(value) == [kind |-> "json", value |-> value]
Events == {NoBody, BadJson} \cup {Json(b) : b \in Bodies \cup MalformedBodies}

VARIABLES
  event,        \* per invocation: the body of the event it was given, <<>> before
  store,        \* the CheckoutOrders table: cartId -> OrderRecord (partial function)
  now,          \* the wall clock, in hours
  storeFails,   \* storage errors raised so far
  pc,           \* per invocation: the await it is suspended at
  request,      \* per invocation: the validated CheckoutRequest, <<>> before
  pricing,      \* per invocation: the PricingResult of step 4, <<>> before
  order,        \* per invocation: the Order returned by createOrder, <<>> before
  isExisting,   \* per invocation: createOrder's isExisting flag
  paymentResult,\* per invocation: the PaymentResult of capturePayment, <<>> before
  paymentError, \* per invocation: the value caught at checkout.ts:108, <<>> before
  response,     \* per invocation: the APIGatewayProxyResult returned, <<>> before
  gateway,      \* history: every capturePayment call and its outcome
  doneBefore,   \* history: the invocations that had returned when this one began
  expiries,     \* history: per cartId, records removed by TTL so far
  expiredAtStart, \* history: expiries of its cartId when the invocation began
  sawExpire,    \* history: a record of its cartId expired while the invocation ran
  currentCorrelationId \* logger.ts:14: the process's correlation id, <<>> if undefined

vars == <<event, store, now, storeFails, pc, request, pricing, order,
          isExisting, paymentResult, paymentError, response, gateway,
          doneBefore, expiries, expiredAtStart, sawExpire, currentCorrelationId>>

\* ------------------------------------------------------------- pricing.ts
\* The subtotals up to 200.00 for which roundTo2(subtotal * TAX_RATE) comes
\* out one cent below the half-up value.  Their tax falls on half a cent; the
\* double subtotal * 0.10 lies just below that half, Number.EPSILON (2^-52)
\* is lost when it is added to a double at or above 4, and the product with
\* 100 is then below n + 0.5, which Math.round takes down to n.  (40.15 * 0.10
\* is the double next to 4.015, which lies below it; adding 2^-52 gives the
\* same double, and its product with 100 is 401.49999999999994.)  The list
\* is the result of evaluating pricing.ts:8-10
\* and 40 in IEEE-754 double arithmetic for every subtotal from 0.01 to 200.00.
HalfCentLost ==
  {4015, 4105, 4265, 4355, 4515, 4605, 4765, 8085, 8155, 8335, 8405, 8585,
   8655, 8835, 8905, 9085, 9155, 9335, 9405, 9585, 16045, 16185, 16295, 16435,
   16545, 16685, 16795, 16935, 17045, 17185, 17295, 17435, 17545, 17685,
   17795, 17935, 18045, 18185, 18295, 18435, 18545, 18685, 18795, 18935,
   19045, 19185}

\* A rounding that cuts the fraction of a cent off.
roundTo2_Truncate(value, scale) == value \div scale

\* roundTo2 of value/scale, in cents, for value/scale up to 200.00: the
\* nearest cent, a half cent going up unless the double arithmetic loses it.
\* The handler's values are whole cents (scale 1) but for the tax, which is
\* subtotal * TAX_RATE_PCT hundredths of a cent (scale 100).
roundTo2(value, scale) ==
  IF scale = 100 /\ value \in {s * TAX_RATE_PCT : s \in HalfCentLost}
  THEN value \div scale
  ELSE (2 * value + scale) \div (2 * scale)

\* A line total that keeps the lineTotal an item already carries.
calculateLineTotal_Trusting(item) ==
  [a \in DOMAIN item \cup {"lineTotal"} |->
     IF a \in DOMAIN item THEN item[a]
     ELSE roundTo2(item.price * item.quantity, 1)]

\* calculateLineTotal: { ...item, lineTotal }.
calculateLineTotal(item) ==
  [a \in DOMAIN item \cup {"lineTotal"} |->
     IF a = "lineTotal" THEN roundTo2(item.price * item.quantity, 1)
     ELSE item[a]]

RECURSIVE SumLineTotals(_)
SumLineTotals(pricedItems) ==
  IF pricedItems = <<>> THEN 0
  ELSE Head(pricedItems).lineTotal + SumLineTotals(Tail(pricedItems))

\* A pricing that hands the priced items back last item first.
calculatePricing_Reversed(items) ==
  LET pricedItems == [k \in 1..Len(items) |->
                        calculateLineTotal(items[Len(items) + 1 - k])]
      subtotal == roundTo2(SumLineTotals(pricedItems), 1)
      tax == roundTo2(subtotal * TAX_RATE_PCT, 100)
      total == roundTo2(subtotal + tax, 1)
  IN [items |-> pricedItems, subtotal |-> subtotal, tax |-> tax, total |-> total]

calculatePricing(items) ==
  LET pricedItems == [k \in 1..Len(items) |-> calculateLineTotal(items[k])]
      subtotal == roundTo2(SumLineTotals(pricedItems), 1)
      tax == roundTo2(subtotal * TAX_RATE_PCT, 100)
      total == roundTo2(subtotal + tax, 1)
  IN [items |-> pricedItems, subtotal |-> subtotal, tax |-> tax, total |-> total]

\* ---------------------------------------------------------- validation.ts
\* Number.isFinite and Number.isInteger on the numbers of an item.
IsFinite(n) == n # Infinity
IsInteger(item) == IF "tenths" \in DOMAIN item THEN item.tenths = 0 ELSE TRUE

\* An item schema whose price may be any finite number.
CartItemSchema_AnyPrice(item) ==
  /\ item.productId # ""
  /\ item.name # ""
  /\ IsFinite(item.price)
  /\ IsInteger(item)
  /\ item.quantity >= 1

CartItemSchema(item) ==
  /\ item.productId # ""
  /\ item.name # ""
  /\ item.price > 0
  /\ IsFinite(item.price)
  /\ IsInteger(item)
  /\ item.quantity >= 1

\* The schema without the minimum of one item.
CheckoutRequestSchema_AnyLength(body) ==
  /\ {"cartId", "items", "paymentToken"} \subseteq DOMAIN body
  /\ body.cartId # ""
  /\ \A k \in 1..Len(body.items) : CartItemSchema(body.items[k])
  /\ body.paymentToken # ""

CheckoutRequestSchema(body) ==
  /\ {"cartId", "items", "paymentToken"} \subseteq DOMAIN body
  /\ body.cartId # ""
  /\ Len(body.items) >= 1
  /\ \A k \in 1..Len(body.items) : CartItemSchema(body.items[k])
  /\ body.paymentToken # ""

\* The message of the first issue of an item (validation.ts:8-19).
ItemIssue(item) ==
  IF item.productId = "" THEN "productId must be a non-empty string"
  ELSE IF item.name = "" THEN "name must be a non-empty string"
  ELSE IF item.price <= 0 THEN "Item price must be greater than 0"
  ELSE IF ~IsFinite(item.price) THEN "Item price must be a finite number"
  ELSE IF ~IsInteger(item) THEN "Item quantity must be a whole number"
  ELSE "Item quantity must be at least 1"

IndexText == <<"0", "1", "2">>

\* validateCheckoutRequest's message for a body that fails the schema: that
\* of the first issue, in the order cartId, items, paymentToken
\* (validation.ts:36-103).  null is the value with no key.
ValidationMessage(body) ==
  IF DOMAIN body = {} THEN "Request body is required"
  ELSE IF "cartId" \notin DOMAIN body THEN "cartId is required"
  ELSE IF body.cartId = "" THEN "cartId must be a non-empty string"
  ELSE IF "items" \notin DOMAIN body THEN "items is required"
  ELSE IF Len(body.items) < 1 THEN "Cart must contain at least one item"
  ELSE IF \E k \in 1..Len(body.items) : ~CartItemSchema(body.items[k])
  THEN LET k == CHOOSE k \in 1..Len(body.items) :
                  /\ ~CartItemSchema(body.items[k])
                  /\ \A m \in 1..(k - 1) : CartItemSchema(body.items[m])
       IN "Item at index " \o IndexText[k] \o ": " \o ItemIssue(body.items[k])
  ELSE IF "paymentToken" \notin DOMAIN body THEN "paymentToken is required"
  ELSE "paymentToken must be a non-empty string"

\* What CheckoutRequestSchema.parse returns for a body that passes
\* (validation.ts:38): z.object keeps the keys the schema names and strips
\* every other.
CartItemKeys == {"productId", "name", "price", "quantity"}
CartItemData(item) == [a \in CartItemKeys |-> item[a]]
CheckoutRequestData(body) ==
  [cartId |-> body.cartId,
   items |-> [k \in 1..Len(body.items) |-> CartItemData(body.items[k])],
   paymentToken |-> body.paymentToken]

\* JSON.parse of a body: <<value>>, or <<>> when it throws a SyntaxError.
JSON_parse(body) == IF body.kind = "json" THEN <<body.value>> ELSE <<>>

\* ------------------------------------------------ the table (DynamoDB)
\* GetCommand: the item under the key, <<>> when there is none.
GetItem(table, cartId) ==
  IF cartId \in DOMAIN table THEN <<table[cartId]>> ELSE <<>>

\* The put's condition left out: every put is accepted.
attribute_not_exists_Always(table, cartId) == TRUE

\* ConditionExpression "attribute_not_exists(cartId)" of createOrder's put.
attribute_not_exists(table, cartId) == cartId \notin DOMAIN table

\* PutCommand: the item replaces whatever is under its key.
PutItem(table, record) ==
  [c \in DOMAIN table \cup {record.cartId} |->
     IF c = record.cartId THEN record ELSE table[c]]

\* An assignment that leaves the object with the assigned key alone.
SetAttr_Overwrite(obj, k, v) == [a \in {k} |-> v]

\* A JavaScript object with key k set to v.
SetAttr(obj, k, v) ==
  [a \in DOMAIN obj \cup {k} |-> IF a = k THEN v ELSE obj[a]]

\* An update that sets the status on every item of the table, keyed or not.
UpdateItem_AllKeys(table, cartId, status, transactionId) ==
  [c \in DOMAIN table \cup {cartId} |->
     SetAttr(IF c \in DOMAIN table THEN table[c] ELSE [cartId |-> c],
             "status", status)]

\* An update whose expression sets #status only, whatever it is given.
UpdateItem_StatusOnly(table, cartId, status, transactionId) ==
  LET old == IF cartId \in DOMAIN table THEN table[cartId]
             ELSE [cartId |-> cartId]
      new == SetAttr(old, "status", status)
  IN [c \in DOMAIN table \cup {cartId} |-> IF c = cartId THEN new ELSE table[c]]

\* UpdateCommand of updateOrderStatus: SET #status (and #txnId when a
\* transactionId is given) on the item under the key; the command carries no
\* condition, so an absent item is created with the key and the SET values.
UpdateItem(table, cartId, status, transactionId) ==
  LET old == IF cartId \in DOMAIN table THEN table[cartId]
             ELSE [cartId |-> cartId]
      withStatus == SetAttr(old, "status", status)
      new == IF transactionId # <<>>
             THEN SetAttr(withStatus, "transactionId", transactionId[1])
             ELSE withStatus
  IN [c \in DOMAIN table \cup {cartId} |-> IF c = cartId THEN new ELSE table[c]]

DeleteItem(table, cartId) == [c \in DOMAIN table \ {cartId} |-> table[c]]

\* ----------------------------------------------------------------- order.ts
OrderFields ==
  {"orderId", "cartId", "status", "items", "subtotal", "tax", "total", "createdAt"}

\* A mapping that hands the record out as it is stored.
mapRecordToOrder_Raw(record) == record

\* mapRecordToOrder: the public Order of a record; paymentToken and ttl are
\* left out, transactionId is copied only when the record has one.
mapRecordToOrder(record) ==
  [a \in (OrderFields \cap DOMAIN record)
         \cup (IF "transactionId" \in DOMAIN record THEN {"transactionId"} ELSE {})
     |-> record[a]]

\* uuidv4(): a value no other call returns.  An invocation calls it once for
\* its orderId and once for its transactionId, so the invocation names it.
uuidv4(i) == i

\* The OrderRecord createOrder builds (order.ts:82-101).
NewRecord(cartId, paymentToken, pr, uuid, time) ==
  [orderId |-> <<"ord", uuid>>, cartId |-> cartId, status |-> "CREATED",
   items |-> pr.items, subtotal |-> pr.subtotal, tax |-> pr.tax,
   total |-> pr.total, paymentToken |-> paymentToken, createdAt |-> time,
   ttl |-> time + TTL_HOURS]

\* A respond that answers every order with 200.
RespondOrder_Always200(statusCode, o) ==
  <<[statusCode |-> 200, success |-> TRUE, order |-> <<o>>, error |-> <<>>]>>

\* -------------------------------------------------------------- checkout.ts
\* respond(statusCode, body) with a SuccessResponse.
RespondOrder(statusCode, o) ==
  <<[statusCode |-> statusCode, success |-> TRUE, order |-> <<o>>, error |-> <<>>]>>

\* respond(statusCode, body) with an ErrorResponse.
RespondError(statusCode, err) ==
  <<[statusCode |-> statusCode, success |-> FALSE, order |-> <<>>, error |-> <<err>>]>>

\* No response at all: the error leaves the handler as a rejected promise.
InternalError_Escapes == <<>>

\* An outer catch that passes the message of the caught error on.
InternalError_Detailed ==
  RespondError(500, [code |-> "INTERNAL_ERROR",
                     message |-> "Failed to retrieve existing order after conditional check failure"])

\* The outer catch for a value that is no AppError (checkout.ts:144-155).
InternalError ==
  RespondError(500, [code |-> "INTERNAL_ERROR",
                     message |-> "An unexpected error occurred"])

\* A completed order that carries the new status but no transactionId.
CompletedOrder_NoTxn(o, transactionId) ==
  SetAttr(o, "status", "PAYMENT_CAPTURED")

\* completedOrder (checkout.ts:94-98).
CompletedOrder(o, transactionId) ==
  SetAttr(SetAttr(o, "status", "PAYMENT_CAPTURED"), "transactionId", transactionId)

\* event.requestContext.requestId (checkout.ts:25-26): one per invocation.
requestId(i) == <<"req", i>>

\* logger.ts:16-22, as called at the handler's entry (checkout.ts:27) and in
\* its finally (checkout.ts:156-158): the value of the module-level
\* currentCorrelationId after the step of an invocation that has or has not
\* returned.  The invocations of one behaviour run in one Node process, as
\* under scripts/local-server.ts.
setCorrelationId(id) == <<id>>
clearCorrelationId == <<>>
Finally(returned, id) == IF returned THEN clearCorrelationId ELSE id

InFlight(i) == pc[i] \notin {"idle", "done", "abandoned"}
Returned(i) == pc[i] = "done"
Ended(i) == pc[i] \in {"done", "abandoned"}
Req(i) == request[i][1]

Init ==
  /\ store = <<>>
  /\ now = 0
  /\ storeFails = 0
  /\ pc = [i \in Inv |-> "idle"]
  /\ event = [i \in Inv |-> <<>>]
  /\ request = [i \in Inv |-> <<>>]
  /\ pricing = [i \in Inv |-> <<>>]
  /\ order = [i \in Inv |-> <<>>]
  /\ isExisting = [i \in Inv |-> FALSE]
  /\ paymentResult = [i \in Inv |-> <<>>]
  /\ paymentError = [i \in Inv |-> <<>>]
  /\ response = [i \in Inv |-> <<>>]
  /\ gateway = {}
  /\ doneBefore = [i \in Inv |-> {}]
  /\ expiries = [c \in Carts |-> 0]
  /\ expiredAtStart = [i \in Inv |-> 0]
  /\ sawExpire = [i \in Inv |-> FALSE]
  /\ currentCorrelationId = <<>>

\* A handler that looks the cartId up before it validates the body: a body
\* that names a cartId with a stored order is answered with that order.
HandlerStart_LookupFirst(i, ev) ==
  /\ pc[i] = "idle"
  /\ \A j \in Inv : j < i => pc[j] # "idle"
  /\ i < MaxInv => ev \in {Json(b) : b \in {x \in Bodies : x.cartId = "cart-1"}}
  /\ event' = [event EXCEPT ![i] = <<ev>>]
  /\ doneBefore' = [doneBefore EXCEPT ![i] = {j \in Inv : Ended(j)}]
  /\ LET parsed == IF ev.kind = "absent" THEN <<(<<>>)>> ELSE JSON_parse(ev)
     IN IF parsed = <<>>
        THEN /\ response' = [response EXCEPT ![i] =
                  RespondError(400, [code |-> "VALIDATION_ERROR",
                                     message |-> "Invalid JSON in request body"])]
             /\ pc' = [pc EXCEPT ![i] = "done"]
             /\ UNCHANGED <<request, expiredAtStart>>
        ELSE IF ev.kind = "json" /\ ~CheckoutRequestSchema(parsed[1])
                /\ GetItem(store, parsed[1].cartId) # <<>>
        THEN /\ response' = [response EXCEPT ![i] =
                  RespondOrder(200, mapRecordToOrder(
                                      GetItem(store, parsed[1].cartId)[1]))]
             /\ pc' = [pc EXCEPT ![i] = "done"]
             /\ UNCHANGED <<request, expiredAtStart>>
        ELSE IF CheckoutRequestSchema(parsed[1])
        THEN /\ request' = [request EXCEPT ![i] = <<CheckoutRequestData(parsed[1])>>]
             /\ expiredAtStart' =
                  [expiredAtStart EXCEPT ![i] = expiries[parsed[1].cartId]]
             /\ pc' = [pc EXCEPT ![i] = "getExistingOrder"]
             /\ UNCHANGED response
        ELSE /\ response' = [response EXCEPT ![i] =
                  RespondError(400, [code |-> "VALIDATION_ERROR",
                                     message |-> ValidationMessage(parsed[1])])]
             /\ pc' = [pc EXCEPT ![i] = "done"]
             /\ UNCHANGED <<request, expiredAtStart>>
  /\ UNCHANGED <<store, now, storeFails, pricing, order, isExisting,
                 paymentResult, paymentError, gateway, expiries, sawExpire>>
  /\ currentCorrelationId' = Finally(pc'[i] = "done", setCorrelationId(requestId(i)))

\* handler, steps 1-2 (checkout.ts:35-52): parse the body (an absent body is
\* null) and validate it; a body that is no JSON or fails validation is
\* answered 400, a valid one issues the idempotency read.
HandlerStart(i, ev) ==
  /\ pc[i] = "idle"
  /\ \A j \in Inv : j < i => pc[j] # "idle"
  /\ i < MaxInv => ev \in {Json(b) : b \in {x \in Bodies : x.cartId = "cart-1"}}
  /\ event' = [event EXCEPT ![i] = <<ev>>]
  /\ doneBefore' = [doneBefore EXCEPT ![i] = {j \in Inv : Ended(j)}]
  /\ LET parsed == IF ev.kind = "absent" THEN <<(<<>>)>> ELSE JSON_parse(ev)
     IN IF parsed = <<>>
        THEN /\ response' = [response EXCEPT ![i] =
                  RespondError(400, [code |-> "VALIDATION_ERROR",
                                     message |-> "Invalid JSON in request body"])]
             /\ pc' = [pc EXCEPT ![i] = "done"]
             /\ UNCHANGED <<request, expiredAtStart>>
        ELSE IF CheckoutRequestSchema(parsed[1])
        THEN /\ request' = [request EXCEPT ![i] = <<CheckoutRequestData(parsed[1])>>]
             /\ expiredAtStart' =
                  [expiredAtStart EXCEPT ![i] = expiries[parsed[1].cartId]]
             /\ pc' = [pc EXCEPT ![i] = "getExistingOrder"]
             /\ UNCHANGED response
        ELSE /\ response' = [response EXCEPT ![i] =
                  RespondError(400, [code |-> "VALIDATION_ERROR",
                                     message |-> ValidationMessage(parsed[1])])]
             /\ pc' = [pc EXCEPT ![i] = "done"]
             /\ UNCHANGED <<request, expiredAtStart>>
  /\ UNCHANGED <<store, now, storeFails, pricing, order, isExisting,
                 paymentResult, paymentError, gateway, expiries, sawExpire>>
  /\ currentCorrelationId' = Finally(pc'[i] = "done", setCorrelationId(requestId(i)))

\* A store request fails with a storage error (DynamoDB unavailable): the
\* request is not applied and send() rejects with an Error that is no AppError.
StoreUnavailable == storeFails < MaxStoreFail

\* A catch that leaves the order's status as it was at creation.
CatchStatus_Created == "CREATED"

\* What the handler's catch at checkout.ts:108 writes before it looks at the
\* kind of the error.
CatchStatus == "PAYMENT_FAILED"

\* The idempotency read with a retry of unpaid orders: an existing order is
\* returned only once it is PAYMENT_CAPTURED, any other is sent to capture again.
HandlerGetExisting_RetryUnpaid(i) ==
  /\ pc[i] = "getExistingOrder"
  /\ \/ /\ StoreUnavailable
        /\ storeFails' = storeFails + 1
        /\ response' = [response EXCEPT ![i] = InternalError]
        /\ pc' = [pc EXCEPT ![i] = "done"]
        /\ UNCHANGED <<pricing, order>>
     \/ /\ GetItem(store, Req(i).cartId) # <<>>
        /\ GetItem(store, Req(i).cartId)[1].status = "PAYMENT_CAPTURED"
        /\ response' = [response EXCEPT ![i] =
             RespondOrder(200, mapRecordToOrder(GetItem(store, Req(i).cartId)[1]))]
        /\ pc' = [pc EXCEPT ![i] = "done"]
        /\ UNCHANGED <<storeFails, pricing, order>>
     \/ /\ GetItem(store, Req(i).cartId) # <<>>
        /\ GetItem(store, Req(i).cartId)[1].status # "PAYMENT_CAPTURED"
        /\ order' = [order EXCEPT ![i] =
             <<mapRecordToOrder(GetItem(store, Req(i).cartId)[1])>>]
        /\ pc' = [pc EXCEPT ![i] = "capturePayment"]
        /\ UNCHANGED <<storeFails, pricing, response>>
     \/ /\ GetItem(store, Req(i).cartId) = <<>>
        /\ pricing' = [pricing EXCEPT ![i] = <<calculatePricing(Req(i).items)>>]
        /\ pc' = [pc EXCEPT ![i] = "createOrder"]
        /\ UNCHANGED <<storeFails, response, order>>
  /\ UNCHANGED <<store, now, event, request, isExisting, paymentResult, paymentError,
                 gateway, doneBefore, expiries, expiredAtStart, sawExpire>>
  /\ currentCorrelationId' = Finally(pc'[i] = "done", currentCorrelationId)

\* handler, step 3 (checkout.ts:51-62) with getExistingOrder (order.ts:60-75):
\* the idempotency read.  An existing order is returned with 200; otherwise
\* pricing is computed and createOrder's put is issued.
HandlerGetExisting(i) ==
  /\ pc[i] = "getExistingOrder"
  /\ \/ /\ StoreUnavailable
        /\ storeFails' = storeFails + 1
        /\ response' = [response EXCEPT ![i] = InternalError]
        /\ pc' = [pc EXCEPT ![i] = "done"]
        /\ UNCHANGED pricing
     \/ /\ GetItem(store, Req(i).cartId) # <<>>
        /\ response' = [response EXCEPT ![i] =
             RespondOrder(200, mapRecordToOrder(GetItem(store, Req(i).cartId)[1]))]
        /\ pc' = [pc EXCEPT ![i] = "done"]
        /\ UNCHANGED <<storeFails, pricing>>
     \/ /\ GetItem(store, Req(i).cartId) = <<>>
        /\ pricing' = [pricing EXCEPT ![i] = <<calculatePricing(Req(i).items)>>]
        /\ pc' = [pc EXCEPT ![i] = "createOrder"]
        /\ UNCHANGED <<storeFails, response>>
  /\ UNCHANGED <<store, now, event, request, order, isExisting,
                 paymentResult, paymentError, gateway, doneBefore, expiries,
                 expiredAtStart, sawExpire>>
  /\ currentCorrelationId' = Finally(pc'[i] = "done", currentCorrelationId)

\* A createOrder that sends its put again after a storage error.
CreateOrderPut_Retry(i) ==
  /\ pc[i] = "createOrder"
  /\ LET record == NewRecord(Req(i).cartId, Req(i).paymentToken, pricing[i][1],
                             uuidv4(i), now)
     IN \/ /\ StoreUnavailable
           /\ storeFails' = storeFails + 1
           /\ UNCHANGED <<store, order, response, pc>>
        \/ /\ attribute_not_exists(store, Req(i).cartId)
           /\ store' = PutItem(store, record)
           /\ order' = [order EXCEPT ![i] = <<mapRecordToOrder(record)>>]
           /\ pc' = [pc EXCEPT ![i] = "capturePayment"]
           /\ UNCHANGED <<storeFails, response>>
        \/ /\ ~attribute_not_exists(store, Req(i).cartId)
           /\ pc' = [pc EXCEPT ![i] = "createOrderRead"]
           /\ UNCHANGED <<store, storeFails, order, response>>
  /\ UNCHANGED <<now, event, request, pricing, isExisting, paymentResult, paymentError,
                 gateway, doneBefore, expiries, expiredAtStart, sawExpire>>
  /\ currentCorrelationId' = Finally(pc'[i] = "done", currentCorrelationId)

\* createOrder (order.ts:81-113): the conditional put of a fresh record.  On
\* success the handler goes on to capture (checkout.ts:79); a rejected
\* condition sends createOrder to its follow-up read.
CreateOrderPut(i) ==
  /\ pc[i] = "createOrder"
  /\ LET record == NewRecord(Req(i).cartId, Req(i).paymentToken, pricing[i][1],
                             uuidv4(i), now)
     IN \/ /\ StoreUnavailable
           /\ storeFails' = storeFails + 1
           /\ response' = [response EXCEPT ![i] = InternalError]
           /\ pc' = [pc EXCEPT ![i] = "done"]
           /\ UNCHANGED <<store, order>>
        \/ /\ attribute_not_exists(store, Req(i).cartId)
           /\ store' = PutItem(store, record)
           /\ order' = [order EXCEPT ![i] = <<mapRecordToOrder(record)>>]
           /\ pc' = [pc EXCEPT ![i] = "capturePayment"]
           /\ UNCHANGED <<storeFails, response>>
        \/ /\ ~attribute_not_exists(store, Req(i).cartId)
           /\ pc' = [pc EXCEPT ![i] = "createOrderRead"]
           /\ UNCHANGED <<store, storeFails, order, response>>
  /\ UNCHANGED <<now, event, request, pricing, isExisting, paymentResult, paymentError,
                 gateway, doneBefore, expiries, expiredAtStart, sawExpire>>
  /\ currentCorrelationId' = Finally(pc'[i] = "done", currentCorrelationId)

\* A handler that goes on to capture with the order createOrder handed back
\* after a lost race, instead of answering 200.
CreateOrderRead_Proceed(i) ==
  /\ pc[i] = "createOrderRead"
  /\ \/ /\ StoreUnavailable
        /\ storeFails' = storeFails + 1
        /\ response' = [response EXCEPT ![i] = InternalError]
        /\ pc' = [pc EXCEPT ![i] = "done"]
        /\ UNCHANGED <<order, isExisting>>
     \/ /\ GetItem(store, Req(i).cartId) = <<>>
        /\ response' = [response EXCEPT ![i] = InternalError]
        /\ pc' = [pc EXCEPT ![i] = "done"]
        /\ UNCHANGED <<storeFails, order, isExisting>>
     \/ /\ GetItem(store, Req(i).cartId) # <<>>
        /\ order' = [order EXCEPT ![i] =
             <<mapRecordToOrder(GetItem(store, Req(i).cartId)[1])>>]
        /\ isExisting' = [isExisting EXCEPT ![i] = TRUE]
        /\ pc' = [pc EXCEPT ![i] = "capturePayment"]
        /\ UNCHANGED <<storeFails, response>>
  /\ UNCHANGED <<store, now, event, request, pricing, paymentResult,
                 paymentError, gateway, doneBefore, expiries, expiredAtStart, sawExpire>>
  /\ currentCorrelationId' = Finally(pc'[i] = "done", currentCorrelationId)

\* createOrder after ConditionalCheckFailedException (order.ts:114-128) and
\* the handler's isExisting branch (checkout.ts:71-77): read the record that
\* won; if the read finds none, createOrder throws a plain Error.
CreateOrderRead(i) ==
  /\ pc[i] = "createOrderRead"
  /\ \/ /\ StoreUnavailable
        /\ storeFails' = storeFails + 1
        /\ response' = [response EXCEPT ![i] = InternalError]
        /\ UNCHANGED <<order, isExisting>>
     \/ /\ GetItem(store, Req(i).cartId) = <<>>
        /\ response' = [response EXCEPT ![i] = InternalError]
        /\ UNCHANGED <<storeFails, order, isExisting>>
     \/ /\ GetItem(store, Req(i).cartId) # <<>>
        /\ order' = [order EXCEPT ![i] =
             <<mapRecordToOrder(GetItem(store, Req(i).cartId)[1])>>]
        /\ isExisting' = [isExisting EXCEPT ![i] = TRUE]
        /\ response' = [response EXCEPT ![i] = RespondOrder(200, order'[i][1])]
        /\ UNCHANGED storeFails
  /\ pc' = [pc EXCEPT ![i] = "done"]
  /\ UNCHANGED <<store, now, event, request, pricing, paymentResult,
                 paymentError, gateway, doneBefore, expiries, expiredAtStart, sawExpire>>
  /\ currentCorrelationId' = Finally(pc'[i] = "done", currentCorrelationId)

\* A capture of the subtotal, the tax left out.
GatewayCall_Subtotal(i, outcome) ==
  [inv |-> i, cartId |-> Req(i).cartId, orderId |-> order[i][1].orderId,
   amount |-> order[i][1].subtotal, paymentToken |-> Req(i).paymentToken,
   outcome |-> outcome]

\* One capturePayment call as the gateway saw it.
GatewayCall(i, outcome) ==
  [inv |-> i, cartId |-> Req(i).cartId, orderId |-> order[i][1].orderId,
   amount |-> order[i][1].total, paymentToken |-> Req(i).paymentToken,
   outcome |-> outcome]

\* handler, step 6 (checkout.ts:79-85, 108) with capturePayment
\* (payment.ts:25-52): a failure token is declined with a PaymentError, any
\* other token is captured under a fresh transactionId; the call may also
\* fail with an unclassified Error (a network timeout) before any capture.
CapturePayment(i) ==
  /\ pc[i] = "capturePayment"
  /\ \/ /\ gateway' = gateway \cup {GatewayCall(i, "error")}
        /\ paymentError' = [paymentError EXCEPT ![i] = <<[name |-> "Error"]>>]
        /\ pc' = [pc EXCEPT ![i] = "updateFailed"]
        /\ UNCHANGED paymentResult
     \/ /\ Req(i).paymentToken \in FAILURE_TOKENS
        /\ gateway' = gateway \cup {GatewayCall(i, "declined")}
        /\ paymentError' = [paymentError EXCEPT ![i] =
             <<[name |-> "PaymentError", message |-> "Payment capture failed",
                orderId |-> order[i][1].orderId]>>]
        /\ pc' = [pc EXCEPT ![i] = "updateFailed"]
        /\ UNCHANGED paymentResult
     \/ /\ Req(i).paymentToken \notin FAILURE_TOKENS
        /\ gateway' = gateway \cup {GatewayCall(i, "captured")}
        /\ paymentResult' = [paymentResult EXCEPT ![i] =
             <<[transactionId |-> <<"txn", uuidv4(i)>>, status |-> "captured"]>>]
        /\ pc' = [pc EXCEPT ![i] = "updateCaptured"]
        /\ UNCHANGED paymentError
  /\ UNCHANGED <<store, now, storeFails, event, request, pricing, order, isExisting,
                 response, doneBefore, expiries, expiredAtStart, sawExpire>>
  /\ currentCorrelationId' = Finally(pc'[i] = "done", currentCorrelationId)

\* handler (checkout.ts:87-107) with updateOrderStatus (order.ts:134-164):
\* record the capture and answer 201.  The update sits inside the same try
\* as the capture, so a storage error here lands in the catch at line 108.
UpdateCaptured(i) ==
  /\ pc[i] = "updateCaptured"
  /\ \/ /\ StoreUnavailable
        /\ storeFails' = storeFails + 1
        /\ paymentError' = [paymentError EXCEPT ![i] = <<[name |-> "Error"]>>]
        /\ pc' = [pc EXCEPT ![i] = "updateFailed"]
        /\ UNCHANGED <<store, response>>
     \/ /\ store' = UpdateItem(store, Req(i).cartId, "PAYMENT_CAPTURED",
                               <<paymentResult[i][1].transactionId>>)
        /\ response' = [response EXCEPT ![i] =
             RespondOrder(201, CompletedOrder(order[i][1],
                                              paymentResult[i][1].transactionId))]
        /\ pc' = [pc EXCEPT ![i] = "done"]
        /\ UNCHANGED <<storeFails, paymentError>>
  /\ UNCHANGED <<now, event, request, pricing, order, isExisting,
                 paymentResult, gateway, doneBefore, expiries, expiredAtStart, sawExpire>>
  /\ currentCorrelationId' = Finally(pc'[i] = "done", currentCorrelationId)

\* A catch that updates the order only for a PaymentError and rethrows any
\* other error at once.
UpdateFailed_NoUpdate(i) ==
  /\ pc[i] = "updateFailed"
  /\ \/ /\ paymentError[i][1].name = "PaymentError"
        /\ StoreUnavailable
        /\ storeFails' = storeFails + 1
        /\ response' = [response EXCEPT ![i] = InternalError]
        /\ UNCHANGED store
     \/ /\ paymentError[i][1].name = "PaymentError"
        /\ store' = UpdateItem(store, Req(i).cartId, CatchStatus, <<>>)
        /\ response' = [response EXCEPT ![i] =
             RespondError(402, [code |-> "PAYMENT_FAILED",
                                message |-> paymentError[i][1].message,
                                orderId |-> order[i][1].orderId])]
        /\ UNCHANGED storeFails
     \/ /\ paymentError[i][1].name # "PaymentError"
        /\ response' = [response EXCEPT ![i] = InternalError]
        /\ UNCHANGED <<store, storeFails>>
  /\ pc' = [pc EXCEPT ![i] = "done"]
  /\ UNCHANGED <<now, event, request, pricing, order, isExisting,
                 paymentResult, paymentError, gateway, doneBefore, expiries,
                 expiredAtStart, sawExpire>>
  /\ currentCorrelationId' = Finally(pc'[i] = "done", currentCorrelationId)

\* handler's catch (checkout.ts:108-127): mark the order PAYMENT_FAILED, then
\* answer 402 for a PaymentError and rethrow anything else to the outer catch
\* (500).  A storage error of this update escapes the catch to the outer one.
UpdateFailed(i) ==
  /\ pc[i] = "updateFailed"
  /\ \/ /\ StoreUnavailable
        /\ storeFails' = storeFails + 1
        /\ response' = [response EXCEPT ![i] = InternalError]
        /\ UNCHANGED store
     \/ /\ store' = UpdateItem(store, Req(i).cartId, CatchStatus, <<>>)
        /\ response' = [response EXCEPT ![i] =
             IF paymentError[i][1].name = "PaymentError"
             THEN RespondError(402, [code |-> "PAYMENT_FAILED",
                                     message |-> paymentError[i][1].message,
                                     orderId |-> order[i][1].orderId])
             ELSE InternalError]
        /\ UNCHANGED storeFails
  /\ pc' = [pc EXCEPT ![i] = "done"]
  /\ UNCHANGED <<now, event, request, pricing, order, isExisting,
                 paymentResult, paymentError, gateway, doneBefore, expiries,
                 expiredAtStart, sawExpire>>
  /\ currentCorrelationId' = Finally(pc'[i] = "done", currentCorrelationId)

\* A retention window passes.  An invocation lives seconds (the Lambda
\* timeout, checkout-stack.ts:32), so none is in flight across the window.
Tick ==
  /\ now < MaxTicks * TTL_HOURS
  /\ \A i \in Inv : ~InFlight(i)
  /\ now' = now + TTL_HOURS
  /\ UNCHANGED <<currentCorrelationId, store, storeFails, pc, event, request, pricing, order,
                 isExisting, paymentResult, paymentError, response, gateway,
                 doneBefore, expiries, expiredAtStart, sawExpire>>

\* The table's time-to-live on attribute ttl (checkout-stack.ts:21,
\* order.ts:88,100): a record whose ttl has passed is deleted by the store.
Expire(c) ==
  /\ c \in DOMAIN store
  /\ "ttl" \in DOMAIN store[c]
  /\ store[c].ttl <= now
  /\ store' = DeleteItem(store, c)
  /\ expiries' = [expiries EXCEPT ![c] = @ + 1]
  /\ sawExpire' = [i \in Inv |->
       sawExpire[i] \/ (InFlight(i) /\ Req(i).cartId = c)]
  /\ UNCHANGED <<currentCorrelationId, now, storeFails, pc, event, request, pricing, order,
                 isExisting, paymentResult, paymentError, response, gateway,
                 doneBefore, expiredAtStart>>

Next ==
  \/ \E i \in Inv : \E ev \in Events : HandlerStart(i, ev)
  \/ \E i \in Inv : HandlerGetExisting(i)
  \/ \E i \in Inv : CreateOrderPut(i)
  \/ \E i \in Inv : CreateOrderRead(i)
  \/ \E i \in Inv : CapturePayment(i)
  \/ \E i \in Inv : UpdateCaptured(i)
  \/ \E i \in Inv : UpdateFailed(i)
  \/ Tick
  \/ \E c \in Carts : Expire(c)

Spec == Init /\ [][Next]_vars

\* ------------------------------------ order.ts, called on the table directly
\* The order service as its unit tests drive it (tests/unit/order.test.ts):
\* createOrder and updateOrderStatus are called in any order, for any cartId,
\* on a table whose records expire.
Uuids == {1, 2}
NewStatuses == {"PAYMENT_CAPTURED", "PAYMENT_FAILED"}
TransactionIds == {<<>>} \cup {<<(<<"txn", u>>)>> : u \in Uuids}

\* createOrder (order.ts:81-113), its effect on the table: the conditional
\* put of a fresh record; a put whose condition fails changes nothing.
createOrder(cartId, paymentToken, pr, uuid) ==
  /\ attribute_not_exists(store, cartId)
  /\ store' = PutItem(store, NewRecord(cartId, paymentToken, pr, uuid, now))
  /\ UNCHANGED <<currentCorrelationId, event, now, storeFails, pc, request, pricing, order,
                 isExisting, paymentResult, paymentError, response, gateway,
                 doneBefore, expiries, expiredAtStart, sawExpire>>

\* updateOrderStatus (order.ts:134-164): the UpdateCommand is sent and its
\* promise resolves, whether or not the table holds a record for the key.
updateOrderStatus(cartId, status, transactionId) ==
  /\ store' = UpdateItem(store, cartId, status, transactionId)
  /\ UNCHANGED <<currentCorrelationId, event, now, storeFails, pc, request, pricing, order,
                 isExisting, paymentResult, paymentError, response, gateway,
                 doneBefore, expiries, expiredAtStart, sawExpire>>

\* A lookup that removes the record it has read.
getExistingOrder_Consume(cartId) ==
  /\ request' = [request EXCEPT ![1] = <<[cartId |-> cartId]>>]
  /\ order' = [order EXCEPT ![1] =
       IF GetItem(store, cartId) = <<>> THEN <<>>
       ELSE <<mapRecordToOrder(GetItem(store, cartId)[1])>>]
  /\ store' = DeleteItem(store, cartId)
  /\ UNCHANGED <<currentCorrelationId, event, now, storeFails, pc, pricing,
                 isExisting, paymentResult, paymentError, response, gateway,
                 doneBefore, expiries, expiredAtStart, sawExpire>>

\* getExistingOrder (order.ts:60-75): one GetCommand under the key; the
\* result is null (no Item) or the mapped record.  The call is kept as the
\* caller sees it: its argument in request[1], its result in order[1].
getExistingOrder(cartId) ==
  /\ request' = [request EXCEPT ![1] = <<[cartId |-> cartId]>>]
  /\ order' = [order EXCEPT ![1] =
       IF GetItem(store, cartId) = <<>> THEN <<>>
       ELSE <<mapRecordToOrder(GetItem(store, cartId)[1])>>]
  /\ UNCHANGED <<currentCorrelationId, store, event, now, storeFails, pc, pricing,
                 isExisting, paymentResult, paymentError, response, gateway,
                 doneBefore, expiries, expiredAtStart, sawExpire>>

StoreNext ==
  \/ \E c \in Carts : getExistingOrder(c)
  \/ \E c \in Carts : \E items \in ItemLists : \E u \in Uuids :
       createOrder(c, "tok_valid", calculatePricing(items), u)
  \/ \E c \in Carts : \E st \in NewStatuses : \E t \in TransactionIds :
       updateOrderStatus(c, st, t)
  \/ Tick
  \/ \E c \in Carts : Expire(c)

StoreSpec == Init /\ [][StoreNext]_vars

\* ---------------------------------- pricing.ts, applied to drawn item lists
\* Pricing as its unit tests drive it (tests/unit/pricing.test.ts) and as the
\* handler calls it: the first invocation is given a cart of plain items, the
\* second a cart of items of the same prices and quantities under another
\* product, each carrying a lineTotal of the client's, in a body that carries
\* a total of the client's.
Prices == {5, 999, 2999, 4015}
Quantities == {1, 2}
PlainItems ==
  [productId : {"p1"}, name : {"Widget"}, price : Prices, quantity : Quantities]
DressedItems ==
  [productId : {"p9"}, name : {"Gift"}, price : Prices, quantity : Quantities,
   lineTotal : {1}]
Carts12(S) == {<<a>> : a \in S} \cup {<<a, b>> : a, b \in S}
PlainBodies ==
  [cartId : {"cart-1"}, items : Carts12(PlainItems), paymentToken : {"tok_valid"}]
DressedBodies ==
  [cartId : {"cart-2"}, items : Carts12(DressedItems), paymentToken : {"tok_fail"},
   total : {1}]

PricingInit ==
  /\ \E b1 \in PlainBodies : \E b2 \in DressedBodies :
       event = [i \in Inv |-> IF i = 1 THEN <<Json(b1)>>
                              ELSE IF i = 2 THEN <<Json(b2)>> ELSE <<>>]
  /\ store = <<>>
  /\ now = 0
  /\ storeFails = 0
  /\ pc = [i \in Inv |-> "idle"]
  /\ request = [i \in Inv |-> <<>>]
  /\ pricing = [i \in Inv |-> <<>>]
  /\ order = [i \in Inv |-> <<>>]
  /\ isExisting = [i \in Inv |-> FALSE]
  /\ paymentResult = [i \in Inv |-> <<>>]
  /\ paymentError = [i \in Inv |-> <<>>]
  /\ response = [i \in Inv |-> <<>>]
  /\ gateway = {}
  /\ doneBefore = [i \in Inv |-> {}]
  /\ expiries = [c \in Carts |-> 0]
  /\ expiredAtStart = [i \in Inv |-> 0]
  /\ sawExpire = [i \in Inv |-> FALSE]
  /\ currentCorrelationId = <<>>

\* validateCheckoutRequest and calculatePricing as the handler calls them
\* (checkout.ts:49, 62): the items priced are those of the validated request.
PriceRequest(i) ==
  /\ pc[i] = "idle"
  /\ event[i] # <<>>
  /\ CheckoutRequestSchema(event[i][1].value)
  /\ request' = [request EXCEPT ![i] = <<CheckoutRequestData(event[i][1].value)>>]
  /\ pricing' = [pricing EXCEPT ![i] = <<calculatePricing(request'[i][1].items)>>]
  /\ pc' = [pc EXCEPT ![i] = "createOrder"]
  /\ UNCHANGED <<event, store, now, storeFails, order, isExisting, paymentResult,
                 paymentError, response, gateway, doneBefore, expiries,
                 expiredAtStart, sawExpire, currentCorrelationId>>

\* calculatePricing called on the items as they are given (pricing.ts:33-49).
PriceItems(i) ==
  /\ pc[i] = "idle"
  /\ event[i] # <<>>
  /\ pricing' = [pricing EXCEPT ![i] = <<calculatePricing(event[i][1].value.items)>>]
  /\ pc' = [pc EXCEPT ![i] = "done"]
  /\ UNCHANGED <<event, store, now, storeFails, request, order, isExisting,
                 paymentResult, paymentError, response, gateway, doneBefore,
                 expiries, expiredAtStart, sawExpire, currentCorrelationId>>

\* createOrder with the pricing of the request (checkout.ts:65-69).
CreatePricedOrder(i) ==
  /\ pc[i] = "createOrder"
  /\ createOrder(request[i][1].cartId, request[i][1].paymentToken, pricing[i][1],
                 uuidv4(i))

PricingNext ==
  \/ \E i \in Inv : PriceRequest(i)
  \/ \E i \in Inv : PriceItems(i)
  \/ \E i \in Inv : CreatePricedOrder(i)

PricingSpec == PricingInit /\ [][PricingNext]_vars

\* ------------------------------------ payment.ts, called on drawn arguments
\* The mock payment service as its unit tests drive it (payment tests):
\* capturePayment is called with any orderId, amount and token, and each call
\* is kept with what it threw or returned.
MaxCalls == 3
OrderIds == {<<"ord", 1>>, <<"ord", 2>>}
Amounts == {1098, 7096}
PaymentTokens ==
  {"tok_fail", "tok_declined", "tok_insufficient_funds",
   "tok_valid", "tok_valid_visa", "TOK_FAIL", ""}

\* capturePayment (payment.ts:25-52): a token of FAILURE_TOKENS throws a
\* PaymentError carrying the orderId; any other token returns a PaymentResult
\* with status captured and the transactionId txn-<uuid>.
capturePayment(orderId, amount, paymentToken, uuid) ==
  IF paymentToken \in FAILURE_TOKENS
  THEN [threw |-> <<[name |-> "PaymentError",
                     message |-> "Payment capture failed",
                     orderId |-> orderId]>>,
        returned |-> <<>>]
  ELSE [threw |-> <<>>,
        returned |-> <<[transactionId |-> <<"txn", uuid>>,
                        status |-> "captured"]>>]

\* One call of capturePayment; the n-th call draws its own uuid.
CallCapturePayment(orderId, amount, paymentToken) ==
  /\ Cardinality(gateway) < MaxCalls
  /\ LET n == Cardinality(gateway) + 1
         out == capturePayment(orderId, amount, paymentToken, uuidv4(n))
     IN gateway' = gateway \cup
          {[call |-> n, orderId |-> orderId, amount |-> amount,
            paymentToken |-> paymentToken,
            threw |-> out.threw, returned |-> out.returned]}
  /\ UNCHANGED <<currentCorrelationId, store, event, now, storeFails, pc, request,
                 pricing, order, isExisting, paymentResult, paymentError,
                 response, doneBefore, expiries, expiredAtStart, sawExpire>>

PaymentNext ==
  \E o \in OrderIds : \E a \in Amounts : \E t \in PaymentTokens :
    CallCapturePayment(o, a, t)

PaymentSpec == Init /\ [][PaymentNext]_vars

\* ------------------------------------------- the handler in a faulty setting
\* The same handler where a read may miss a record and an invocation may be
\* cut off.

\* A createOrder that, finding no record after its put was rejected, hands back
\* the record it had built as if the put had gone through.
CreateOrderReadMisses_OwnRecord(i) ==
  /\ pc[i] = "createOrderRead"
  /\ order' = [order EXCEPT ![i] =
       <<mapRecordToOrder(NewRecord(Req(i).cartId, Req(i).paymentToken,
                                    pricing[i][1], uuidv4(i), now))>>]
  /\ pc' = [pc EXCEPT ![i] = "capturePayment"]
  /\ UNCHANGED <<store, now, storeFails, event, request, pricing, isExisting,
                 response, paymentResult, paymentError, gateway, doneBefore,
                 expiries, expiredAtStart, sawExpire>>
  /\ currentCorrelationId' = Finally(pc'[i] = "done", currentCorrelationId)

\* createOrder after ConditionalCheckFailedException (order.ts:114-125) when
\* the follow-up GetCommand returns no Item although the put was rejected: the
\* read is sent without ConsistentRead (order.ts:63-68), so it may be served
\* from a replica that has not yet seen the record (tests/unit/order.test.ts:
\* 133-145 drives this case).  createOrder throws a plain Error, which the
\* handler's outer catch answers with 500 (checkout.ts:144-155).
CreateOrderReadMisses(i) ==
  /\ pc[i] = "createOrderRead"
  /\ response' = [response EXCEPT ![i] = InternalError]
  /\ pc' = [pc EXCEPT ![i] = "done"]
  /\ UNCHANGED <<store, now, storeFails, event, request, pricing, order,
                 isExisting, paymentResult, paymentError, gateway, doneBefore,
                 expiries, expiredAtStart, sawExpire>>
  /\ currentCorrelationId' = Finally(pc'[i] = "done", currentCorrelationId)

\* An invocation suspended at an await is cut off (the Lambda timeout,
\* checkout-stack.ts:32, or a crash of the process): it takes no further step,
\* returns nothing and does not run its finally block.
Abandon(i) ==
  /\ InFlight(i)
  /\ pc' = [pc EXCEPT ![i] = "abandoned"]
  /\ UNCHANGED <<store, now, storeFails, event, request, pricing, order,
                 isExisting, paymentResult, paymentError, response, gateway,
                 doneBefore, expiries, expiredAtStart, sawExpire,
                 currentCorrelationId>>

FaultNext ==
  \/ Next
  \/ \E i \in Inv : CreateOrderReadMisses(i)
  \/ \E i \in Inv : Abandon(i)

FaultSpec == Init /\ [][FaultNext]_vars

\* The continuation of invocation i at the await it is suspended at.
Proceed(i) ==
  \/ HandlerGetExisting(i)
  \/ CreateOrderPut(i)
  \/ CreateOrderRead(i)
  \/ CapturePayment(i)
  \/ UpdateCaptured(i)
  \/ UpdateFailed(i)

\* The handler within one retention window: submissions arrive, invocations
\* proceed or are cut off.  No record expires while an invocation is in flight
\* (Tick), so the passing of windows has no part in whether one proceeds; nor
\* have the items of a cart, so the submissions carry one item: a valid body
\* with either kind of token for the first cart, one for the second cart, a
\* body without token, a body with a free item, no JSON, and no body.
LiveEvents ==
  {NoBody, BadJson}
    \cup {Json(b) : b \in {x \in Bodies \cup MalformedBodies :
                                x.items \in {<<Cable>>, <<Free>>}}}

LiveNext ==
  \/ \E i \in Inv : \E ev \in LiveEvents : HandlerStart(i, ev)
  \/ \E i \in Inv : Proceed(i)
  \/ \E i \in Inv : Abandon(i)

\* Every promise the handler awaits settles (the store and the gateway answer
\* or fail; capturePayment's timer fires after 10 ms, payment.ts:37), and the
\* event loop then runs the continuation: an invocation that is not cut off
\* does not stay at an await for ever.
LiveSpec ==
  Init /\ [][LiveNext]_vars /\ \A i \in Inv : WF_vars(Proceed(i))

\* The handler left to run: as LiveSpec, with no invocation cut off from
\* outside (the handler awaited to its end, as its tests await it).
RunNext ==
  \/ \E i \in Inv : \E ev \in LiveEvents : HandlerStart(i, ev)
  \/ \E i \in Inv : Proceed(i)

RunSpec ==
  Init /\ [][RunNext]_vars /\ \A i \in Inv : WF_vars(Proceed(i))

\* ------------------------------------------------------------ vocabulary
CartOf(i) == Req(i).cartId
Valid(i) == request[i] # <<>>
GatewayCallsFor(c) == {g \in gateway : g.cartId = c}
GatewayCallsBy(i) == {g \in gateway : g.inv = i}
Captured(i) == \E g \in GatewayCallsBy(i) : g.outcome = "captured"
\* The invocation won the creation: createOrder returned isExisting = false.
Created(i) == order[i] # <<>> /\ ~isExisting[i]
\* The invocation got an existing order back from createOrder (a lost race).
LostRace(i) == order[i] # <<>> /\ isExisting[i]
\* The invocation answered from the idempotency read.
FromPreCheck(i) ==
  Returned(i) /\ Valid(i) /\ pricing[i] = <<>> /\ response[i][1].order # <<>>
Sequential(i, j) == i \in doneBefore[j]
Concurrent(i, j) == i < j /\ pc[j] # "idle" /\ i \notin doneBefore[j]
StatusCode(i) == response[i][1].statusCode
HasOrder(i) == Returned(i) /\ response[i][1].order # <<>>
OrderOf(i) == response[i][1].order[1]
\* No record of the cart expired from the start of i to the return of j,
\* for i begun no later than j.
NoExpiryBetween(i, j) ==
  /\ ~sawExpire[i]
  /\ ~sawExpire[j]
  /\ expiredAtStart[i] = expiredAtStart[j]

\* ------------------------------------------------------------------- C1
\* C1 as stated: for every cartId the gateway's capture is invoked at most
\* once, over all invocations carrying that cartId.
C1_CaptureAtMostOncePerCart ==
  \A c \in Carts : Cardinality(GatewayCallsFor(c)) <= 1

\* C1 amended: capture is invoked at most once per order, and for a cartId at
\* most once for each record the table held for it: a further capture for the
\* cartId needs the earlier record to have expired from the table.
C1_CaptureAtMostOncePerRecord ==
  /\ \A c \in Carts : Cardinality(GatewayCallsFor(c)) <= 1 + expiries[c]
  /\ \A g1, g2 \in gateway : g1.orderId = g2.orderId => g1 = g2

\* Three invocations of one cart have returned with no expiry, one of them
\* after losing the create race, and the gateway was called once.
C1_Witness ==
  \E c \in Carts :
    /\ expiries[c] = 0
    /\ \A i \in Inv : Returned(i) /\ Valid(i) /\ CartOf(i) = c
    /\ \E i \in Inv : LostRace(i)
    /\ Cardinality(GatewayCallsFor(c)) = 1

\* ------------------------------------------------------------------- C2
\* The orderIds an invocation returned: that of the order in a 200 or 201
\* body, or that of the error in a 402 body.
ReturnedOrderIds(i) ==
  IF response[i][1].order # <<>> THEN {response[i][1].order[1].orderId}
  ELSE IF "orderId" \in DOMAIN response[i][1].error[1]
       THEN {response[i][1].error[1].orderId}
       ELSE {}

ConcurrentPair(i, j) ==
  /\ Concurrent(i, j)
  /\ Returned(i) /\ Returned(j)
  /\ Valid(i) /\ Valid(j)
  /\ CartOf(i) = CartOf(j)

EverStored(c) ==
  {order[i][1].orderId : i \in {k \in Inv : Valid(k) /\ Created(k) /\ CartOf(k) = c}}

\* C3 as stated: at most one order has ever existed for a cartId.
C3_OneOrderEver == \A c \in Carts : Cardinality(EverStored(c)) <= 1

\* C3 amended: no operation replaces the order stored under a cartId by one
\* with a different orderId; a different orderId is stored under the cartId
\* only after the earlier record has expired from the table.
C3_OneOrderPerRecord ==
  /\ [][\A c \in Carts :
          c \in DOMAIN store /\ c \in DOMAIN store'
            => store'[c].orderId = store[c].orderId]_vars
  /\ [](\A c \in Carts : Cardinality(EverStored(c)) <= 1 + expiries[c])

\* A second invocation's put was rejected and the record still carries the
\* orderId of the invocation that created it.
C3_Witness ==
  \E i, j \in Inv :
    /\ i # j /\ Valid(i) /\ Valid(j) /\ CartOf(i) = CartOf(j)
    /\ Created(i)
    /\ pc[j] = "createOrderRead"
    /\ CartOf(i) \in DOMAIN store
    /\ store[CartOf(i)].orderId = order[i][1].orderId

\* ------------------------------------------------------------------- C4
\* C4: a createOrder call whose put meets an existing record leaves the table
\* unchanged and, when it returns, returns that record's public fields with
\* isExisting = true; a call whose put meets no record either fails with a
\* storage error or stores a record with status CREATED and the computed
\* totals and returns its public fields with isExisting = false.
C4_CreateOrderStep(i) ==
  LET c == CartOf(i) IN
  /\ pc[i] = "createOrder" /\ pc'[i] # "createOrder" /\ c \in DOMAIN store
       => /\ store' = store
          /\ order'[i] = <<>>
          /\ pc'[i] \in {"createOrderRead", "done"}
  /\ pc[i] = "createOrder" /\ pc'[i] # "createOrder" /\ c \notin DOMAIN store
       => \/ /\ storeFails' = storeFails + 1
             /\ store' = store
             /\ order'[i] = <<>>
          \/ /\ DOMAIN store' = DOMAIN store \cup {c}
             /\ \A d \in DOMAIN store : store'[d] = store[d]
             /\ store'[c].status = "CREATED"
             /\ store'[c].cartId = c
             /\ store'[c].total = pricing[i][1].total
             /\ store'[c].items = pricing[i][1].items
             /\ "transactionId" \notin DOMAIN store'[c]
             /\ order'[i] # <<>>
             /\ DOMAIN order'[i][1] = OrderFields
             /\ \A f \in OrderFields : order'[i][1][f] = store'[c][f]
             /\ ~isExisting'[i]
  /\ pc[i] = "createOrderRead" /\ pc'[i] # "createOrderRead"
       => /\ store' = store
          /\ response'[i][1].statusCode = 200
               => /\ isExisting'[i]
                  /\ order'[i] # <<>>
                  /\ \A f \in OrderFields : order'[i][1][f] = store[c][f]
                  /\ "paymentToken" \notin DOMAIN order'[i][1]

C4_CreateOrder == [][\A i \in Inv : C4_CreateOrderStep(i)]_vars

\* One invocation created the order and another got it back from createOrder
\* with isExisting = true, the record still being the one created.
C4_Witness ==
  \E i, j \in Inv :
    /\ Created(i) /\ LostRace(j) /\ CartOf(i) = CartOf(j)
    /\ order[j][1].orderId = order[i][1].orderId
    /\ CartOf(i) \in DOMAIN store
    /\ store[CartOf(i)].orderId = order[i][1].orderId

\* ------------------------------------------------------------------- C5
CapturedAtGateway(orderId) ==
  \E g \in gateway : g.orderId = orderId /\ g.outcome = "captured"

\* C5 as stated: in every reachable state a stored order with status
\* PAYMENT_CAPTURED was captured at the gateway, and a stored order with
\* status PAYMENT_FAILED has no captured payment at the gateway.
C5_StatusReflectsPayment ==
  \A c \in DOMAIN store :
    "orderId" \in DOMAIN store[c]
      => /\ store[c].status = "PAYMENT_CAPTURED" => CapturedAtGateway(store[c].orderId)
         /\ store[c].status = "PAYMENT_FAILED" => ~CapturedAtGateway(store[c].orderId)

\* ------------------------------------------------------------------- C6
\* The gateway raised an unclassified error for the invocation's capture.
GatewayError(i) == \E g \in GatewayCallsBy(i) : g.outcome = "error"

\* The record the invocation created is still the one stored for its cart.
OwnRecordStored(i) ==
  /\ Created(i)
  /\ CartOf(i) \in DOMAIN store
  /\ "orderId" \in DOMAIN store[CartOf(i)]
  /\ store[CartOf(i)].orderId = order[i][1].orderId

\* C6 as stated: an invocation whose capture met an unexpected gateway error
\* returns an internal error and its stored order is still at CREATED.
C6_StaysCreated ==
  \A i \in Inv :
    Returned(i) /\ Valid(i) /\ GatewayError(i)
      => /\ StatusCode(i) = 500
         /\ OwnRecordStored(i) => store[CartOf(i)].status = "CREATED"

\* C6 amended: after an unexpected gateway error the handler first issues the
\* update of the order's status to PAYMENT_FAILED and then answers with the
\* internal error (500); the update changes nothing but the status, and the
\* order stays at CREATED only when that update fails with a storage error.
C6_CatchStep(i) ==
  pc[i] = "updateFailed" /\ pc'[i] = "done" /\ GatewayError(i)
    => /\ response'[i] = InternalError
       /\ \/ /\ storeFails' = storeFails + 1
             /\ store' = store
          \/ /\ storeFails' = storeFails
             /\ DOMAIN store' = DOMAIN store
             /\ store'[CartOf(i)].status = "PAYMENT_FAILED"
             /\ \A c \in DOMAIN store :
                  /\ DOMAIN store'[c] = DOMAIN store[c]
                  /\ \A a \in DOMAIN store[c] :
                       c # CartOf(i) \/ a # "status" => store'[c][a] = store[c][a]

C6_MarkedFailedThenInternalError ==
  /\ [][\A i \in Inv : C6_CatchStep(i)]_vars
  /\ [](\A i \in Inv :
          Returned(i) /\ Valid(i) /\ GatewayError(i)
            => /\ response[i] = InternalError
               /\ OwnRecordStored(i) /\ store[CartOf(i)].status = "CREATED"
                    => storeFails > 0)

\* An invocation whose capture met an unexpected gateway error has returned
\* 500 and its order is stored with status PAYMENT_FAILED.
C6_Witness ==
  \E i \in Inv :
    /\ Returned(i) /\ Valid(i) /\ GatewayError(i)
    /\ StatusCode(i) = 500
    /\ OwnRecordStored(i)
    /\ store[CartOf(i)].status = "PAYMENT_FAILED"

\* ------------------------------------------------------------------- C7
\* C7: when the idempotency read of a valid submission meets a stored order,
\* whatever its status, the handler computes no pricing, calls no gateway,
\* writes nothing to the store and returns 200 with the stored order's public
\* fields (a storage error of the read itself gives 500, with the same
\* frame); and every gateway call is made by the invocation that created the
\* order, once, so an order left at PAYMENT_FAILED or CREATED is not retried.
C7_PreCheckStep(i) ==
  pc[i] = "getExistingOrder" /\ pc'[i] # "getExistingOrder"
  /\ CartOf(i) \in DOMAIN store
    => /\ store' = store
       /\ gateway' = gateway
       /\ pricing'[i] = <<>>
       /\ order'[i] = <<>>
       /\ pc'[i] = "done"
       /\ \/ /\ storeFails' = storeFails + 1
             /\ response'[i] = InternalError
          \/ /\ storeFails' = storeFails
             /\ response'[i][1].statusCode = 200
             /\ response'[i][1].success
             /\ response'[i][1].order # <<>>
             /\ \A f \in OrderFields :
                  response'[i][1].order[1][f] = store[CartOf(i)][f]
             /\ "paymentToken" \notin DOMAIN response'[i][1].order[1]

C7_ExistingOrderReturnedUntouched ==
  /\ [][\A i \in Inv : C7_PreCheckStep(i)]_vars
  /\ [](\A i \in Inv : FromPreCheck(i) => GatewayCallsBy(i) = {} /\ order[i] = <<>>)
  /\ [](\A g \in gateway :
          /\ Created(g.inv)
          /\ order[g.inv][1].orderId = g.orderId
          /\ \A h \in gateway : h.orderId = g.orderId => h = g)

\* Two invocations answered from the idempotency read, one with an order at
\* CREATED and one with an order at PAYMENT_FAILED, and neither called the
\* gateway.
C7_Witness ==
  \E i, j \in Inv :
    /\ FromPreCheck(i) /\ OrderOf(i).status = "CREATED"
    /\ FromPreCheck(j) /\ OrderOf(j).status = "PAYMENT_FAILED"
    /\ OrderOf(i).orderId = OrderOf(j).orderId
    /\ GatewayCallsBy(i) = {} /\ GatewayCallsBy(j) = {}

\* ------------------------------------------------------------------- C8
\* S is a run of sequential submissions of one valid request: each call began
\* after the one before it had returned, and no other submission for the
\* cart overlaps a call of the run.
SequentialRun(S) ==
  /\ Cardinality(S) >= 2
  /\ \A a \in S : Returned(a) /\ Valid(a)
  /\ \A a, b \in S : Req(a) = Req(b)
  /\ \A a, b \in S : a < b => Sequential(a, b)
  /\ \A a \in S : \A k \in Inv \ S :
       pc[k] # "idle" /\ Valid(k) /\ CartOf(k) = CartOf(a)
         => IF k < a THEN Sequential(k, a) ELSE Sequential(a, k)

First(S) == CHOOSE a \in S : \A b \in S : a <= b
Last(S) == CHOOSE a \in S : \A b \in S : b <= a
GatewayCallsOf(S) == UNION {GatewayCallsBy(a) : a \in S}

\* C8 as stated: in a run of sequential submissions of one valid request the
\* calls after the first all return the same order body, and the gateway is
\* called at most once over the run.
C8_SequentialIdempotent ==
  \A S \in SUBSET Inv :
    SequentialRun(S)
      => /\ \A a, b \in S \ {First(S)} :
              HasOrder(a) /\ HasOrder(b) => OrderOf(a) = OrderOf(b)
         /\ Cardinality(GatewayCallsOf(S)) <= 1

\* C8 amended: the same, for a run during which the cart's record did not
\* expire from the table.
C8_SequentialIdempotentWhileRetained ==
  \A S \in SUBSET Inv :
    SequentialRun(S) /\ NoExpiryBetween(First(S), Last(S))
      => /\ \A a, b \in S \ {First(S)} :
              HasOrder(a) /\ HasOrder(b) => OrderOf(a) = OrderOf(b)
         /\ Cardinality(GatewayCallsOf(S)) <= 1

\* Three sequential submissions of one request with no expiry: the first
\* created the order and captured, the second and third returned the same
\* order body, and the gateway was called once.
C8_Witness ==
  /\ SequentialRun(Inv)
  /\ NoExpiryBetween(First(Inv), Last(Inv))
  /\ Created(First(Inv)) /\ Captured(First(Inv))
  /\ \A a \in Inv \ {First(Inv)} : HasOrder(a)
  /\ \A a, b \in Inv \ {First(Inv)} : OrderOf(a) = OrderOf(b)
  /\ Cardinality(GatewayCallsOf(Inv)) = 1

\* ------------------------------------------------------------------- C9
\* j is a replay of i: a valid submission with i's cartId begun after i
\* returned, that returned an order.
Replay(i, j) ==
  /\ Returned(i) /\ Valid(i)
  /\ Valid(j) /\ Sequential(i, j) /\ CartOf(i) = CartOf(j)
  /\ HasOrder(j)

\* C9 as stated: a replay of a checkout that returned 201 returns, with
\* status 200, an order body identical to that of the 201 response.
C9_ReplayIdentical ==
  \A i, j \in Inv :
    Replay(i, j) /\ StatusCode(i) = 201
      => OrderOf(j) = OrderOf(i) /\ StatusCode(j) = 200

\* C9 amended: the same, for a replay made while the record of the original
\* checkout is retained by the table.
C9_ReplayIdenticalWhileRetained ==
  \A i, j \in Inv :
    Replay(i, j) /\ StatusCode(i) = 201 /\ NoExpiryBetween(i, j)
      => OrderOf(j) = OrderOf(i) /\ StatusCode(j) = 200

\* A checkout returned 201 and a later submission of its cartId returned 200
\* with the same body, transactionId included.
C9_Witness ==
  \E i, j \in Inv :
    /\ Replay(i, j) /\ StatusCode(i) = 201 /\ NoExpiryBetween(i, j)
    /\ StatusCode(j) = 200
    /\ OrderOf(j) = OrderOf(i)
    /\ "transactionId" \in DOMAIN OrderOf(j)
    /\ OrderOf(j).status = "PAYMENT_CAPTURED"

\* ------------------------------------------------------------------ C10
\* The invocation returned an order that existed already: found by the
\* idempotency read or handed back by createOrder after a lost race.
ReturnedExisting(i) ==
  Returned(i) /\ Valid(i) /\ (FromPreCheck(i) \/ (LostRace(i) /\ HasOrder(i)))

\* C10 as stated: a valid invocation returns 201 exactly when it created the
\* order and its payment was captured, and returns 200 with success = true
\* whenever it returns an already existing order.
C10_StatusCodes ==
  \A i \in Inv :
    Returned(i) /\ Valid(i)
      => /\ StatusCode(i) = 201 <=> Created(i) /\ Captured(i)
         /\ ReturnedExisting(i) => StatusCode(i) = 200 /\ response[i][1].success

\* C10 amended: a valid invocation returns 201 exactly when it created the
\* order, its payment was captured and the update of the order's status to
\* PAYMENT_CAPTURED succeeded (when that update fails it returns 500 although
\* the payment was captured); it returns 200 with success = true whenever it
\* returns an already existing order, whatever that order's status.
C10_StatusCodesWithUpdate ==
  \A i \in Inv :
    Returned(i) /\ Valid(i)
      => /\ StatusCode(i) = 201
              <=> Created(i) /\ Captured(i) /\ paymentError[i] = <<>>
         /\ Created(i) /\ Captured(i) /\ paymentError[i] # <<>>
              => StatusCode(i) = 500
         /\ ReturnedExisting(i) => StatusCode(i) = 200 /\ response[i][1].success

\* One invocation created the order, captured and returned 201; another
\* returned the existing order from the idempotency read and a third after a
\* lost create race, both with 200.
C10_Witness ==
  \E i, j, k \in Inv :
    /\ Returned(i) /\ Created(i) /\ Captured(i) /\ StatusCode(i) = 201
    /\ FromPreCheck(j) /\ StatusCode(j) = 200
    /\ Returned(k) /\ LostRace(k) /\ StatusCode(k) = 200

\* ------------------------------------------------------------------ C11
\* C11: every gateway call is made by an invocation that created the order
\* itself, and at the moment of the call the store holds the record that
\* invocation put for the cartId, still at CREATED.
C11_CaptureStep(i) ==
  (\E g \in gateway' \ gateway : g.inv = i)
    => /\ Created(i)
       /\ OwnRecordStored(i)
       /\ store[CartOf(i)].status = "CREATED"
       /\ \A g \in gateway' \ gateway :
            g.orderId = store[g.cartId].orderId /\ g.cartId = CartOf(i)

C11_GatewayAfterCreate ==
  /\ [][\A i \in Inv : C11_CaptureStep(i)]_vars
  /\ [](\A g \in gateway : Created(g.inv))

\* The gateway has been called for an order whose record the calling
\* invocation had put, and the record is in the store.
C11_Witness ==
  \E g \in gateway :
    /\ OwnRecordStored(g.inv)
    /\ store[g.cartId].orderId = g.orderId
    /\ \E j \in Inv : LostRace(j) /\ GatewayCallsBy(j) = {}

\* ------------------------------------------------------------------ C12
\* C12: at the return of a 201 the response order has status PAYMENT_CAPTURED
\* and the gateway's transactionId, and the stored order of the cartId has
\* status PAYMENT_CAPTURED and the same transactionId; this stays so for as
\* long as the record is stored.
C12_ReturnStep(i) ==
  response[i] = <<>> /\ response'[i] # <<>> /\ response'[i][1].statusCode = 201
    => LET o == response'[i][1].order[1]
           r == store'[CartOf(i)]
       IN /\ CartOf(i) \in DOMAIN store'
          /\ o.status = "PAYMENT_CAPTURED"
          /\ "transactionId" \in DOMAIN o
          /\ o.transactionId = paymentResult[i][1].transactionId
          /\ r.orderId = o.orderId
          /\ r.status = "PAYMENT_CAPTURED"
          /\ "transactionId" \in DOMAIN r
          /\ r.transactionId = o.transactionId

C12_CapturedOnReturn ==
  /\ [][\A i \in Inv : C12_ReturnStep(i)]_vars
  /\ [](\A i \in Inv :
          Returned(i) /\ Valid(i) /\ StatusCode(i) = 201
            => /\ OrderOf(i).status = "PAYMENT_CAPTURED"
               /\ "transactionId" \in DOMAIN OrderOf(i)
               /\ Captured(i)
               /\ OwnRecordStored(i)
                    => /\ store[CartOf(i)].status = "PAYMENT_CAPTURED"
                       /\ "transactionId" \in DOMAIN store[CartOf(i)]
                       /\ store[CartOf(i)].transactionId = OrderOf(i).transactionId)

\* An invocation returned 201 and both its response and the stored record
\* carry PAYMENT_CAPTURED and the transactionId of its capture.
C12_Witness ==
  \E i \in Inv :
    /\ Returned(i) /\ Valid(i) /\ StatusCode(i) = 201
    /\ OwnRecordStored(i)
    /\ store[CartOf(i)].status = "PAYMENT_CAPTURED"
    /\ store[CartOf(i)].transactionId = paymentResult[i][1].transactionId
    /\ OrderOf(i).transactionId = paymentResult[i][1].transactionId

\* ------------------------------------------------------------------ C13
\* The gateway declined the invocation's capture.
Declined(i) == \E g \in GatewayCallsBy(i) : g.outcome = "declined"

\* The record carries the items and totals computed at creation.
TotalsAsPriced(r, pr) ==
  /\ r.items = pr.items
  /\ r.subtotal = pr.subtotal
  /\ r.tax = pr.tax
  /\ r.total = pr.total

\* C13: after a decline the handler's update leaves the order it created with
\* status PAYMENT_FAILED, no transactionId and the items, subtotal, tax and
\* total of its creation (when the update itself fails with a storage error
\* the record is left as created and the answer is 500).
C13_DeclineStep(i) ==
  pc[i] = "updateFailed" /\ pc'[i] = "done" /\ Declined(i)
    => \/ /\ storeFails' = storeFails + 1
          /\ store' = store
       \/ /\ storeFails' = storeFails
          /\ CartOf(i) \in DOMAIN store'
          /\ store'[CartOf(i)].orderId = order[i][1].orderId
          /\ store'[CartOf(i)].status = "PAYMENT_FAILED"
          /\ "transactionId" \notin DOMAIN store'[CartOf(i)]
          /\ TotalsAsPriced(store'[CartOf(i)], pricing[i][1])

C13_DeclineMarksFailed ==
  /\ [][\A i \in Inv : C13_DeclineStep(i)]_vars
  /\ [](\A i \in Inv :
          Returned(i) /\ Valid(i) /\ Declined(i) /\ OwnRecordStored(i)
            => /\ "transactionId" \notin DOMAIN store[CartOf(i)]
               /\ TotalsAsPriced(store[CartOf(i)], pricing[i][1])
               /\ store[CartOf(i)].status \in {"PAYMENT_FAILED", "CREATED"}
               /\ store[CartOf(i)].status = "CREATED" => StatusCode(i) = 500)

\* A declined invocation has returned and its order is stored with status
\* PAYMENT_FAILED, no transactionId and the totals it was created with.
C13_Witness ==
  \E i \in Inv :
    /\ Returned(i) /\ Valid(i) /\ Declined(i) /\ OwnRecordStored(i)
    /\ store[CartOf(i)].status = "PAYMENT_FAILED"
    /\ "transactionId" \notin DOMAIN store[CartOf(i)]
    /\ store[CartOf(i)].total = calculatePricing(Req(i).items).total

\* ------------------------------------------------------------------ C14
\* C14: at the return of a 402 the error body carries code PAYMENT_FAILED and
\* the orderId of the order this invocation created, nothing of the gateway
\* but the message, and the stored order of the cartId has status
\* PAYMENT_FAILED.
C14_ReturnStep(i) ==
  response[i] = <<>> /\ response'[i] # <<>> /\ response'[i][1].statusCode = 402
    => LET err == response'[i][1].error[1]
       IN /\ ~response'[i][1].success
          /\ response'[i][1].order = <<>>
          /\ DOMAIN err = {"code", "message", "orderId"}
          /\ err.code = "PAYMENT_FAILED"
          /\ Created(i)
          /\ err.orderId = order[i][1].orderId
          /\ CartOf(i) \in DOMAIN store'
          /\ store'[CartOf(i)].orderId = err.orderId
          /\ store'[CartOf(i)].status = "PAYMENT_FAILED"

C14_PaymentFailedResponse ==
  /\ [][\A i \in Inv : C14_ReturnStep(i)]_vars
  /\ [](\A i \in Inv :
          Returned(i) /\ Valid(i) /\ StatusCode(i) = 402
            => /\ Created(i)
               /\ Declined(i)
               /\ response[i][1].error[1].code = "PAYMENT_FAILED"
               /\ response[i][1].error[1].orderId = order[i][1].orderId)

\* An invocation returned 402 with the orderId of the order it created, and
\* that order is stored with status PAYMENT_FAILED.
C14_Witness ==
  \E i \in Inv :
    /\ Returned(i) /\ Valid(i) /\ StatusCode(i) = 402
    /\ OwnRecordStored(i)
    /\ response[i][1].error[1].orderId = store[CartOf(i)].orderId
    /\ store[CartOf(i)].status = "PAYMENT_FAILED"

\* ------------------------------------------------------------------ C15
\* C15: a record enters the store with status CREATED, and the status of a
\* stored order changes only from CREATED to PAYMENT_CAPTURED or from CREATED
\* to PAYMENT_FAILED: no step changes a status that is PAYMENT_CAPTURED or
\* PAYMENT_FAILED.
C15_StatusStep(c) ==
  /\ c \notin DOMAIN store /\ c \in DOMAIN store'
       => store'[c].status = "CREATED"
  /\ c \in DOMAIN store /\ c \in DOMAIN store'
     /\ store'[c].status # store[c].status
       => /\ store[c].status = "CREATED"
          /\ store'[c].status \in {"PAYMENT_CAPTURED", "PAYMENT_FAILED"}
          /\ store'[c].orderId = store[c].orderId

Mutable == {"status", "transactionId"}

\* C17: a step that keeps the record of a cartId changes no attribute of it
\* but status and transactionId and adds no attribute but transactionId; an
\* update without a transactionId leaves transactionId as it was; and an
\* update issued by an invocation touches the record of its cartId only.
C17_FrameStep(c) ==
  c \in DOMAIN store /\ c \in DOMAIN store'
    => /\ DOMAIN store[c] \subseteq DOMAIN store'[c]
       /\ DOMAIN store'[c] \subseteq DOMAIN store[c] \cup {"transactionId"}
       /\ \A a \in DOMAIN store[c] \ Mutable : store'[c][a] = store[c][a]

C17_UpdateStep(i) ==
  pc[i] \in {"updateCaptured", "updateFailed"} /\ pc'[i] # pc[i]
    => /\ DOMAIN store' = DOMAIN store
       /\ \A c \in DOMAIN store : c # CartOf(i) => store'[c] = store[c]
       /\ pc[i] = "updateFailed"
            => ("transactionId" \in DOMAIN store'[CartOf(i)])
                 = ("transactionId" \in DOMAIN store[CartOf(i)])

C17_UpdateFrame ==
  /\ [][/\ \A c \in Carts : C17_FrameStep(c)
        /\ \A i \in Inv : C17_UpdateStep(i)]_vars
  /\ [](\A i \in Inv :
          OwnRecordStored(i)
            => /\ TotalsAsPriced(store[CartOf(i)], pricing[i][1])
               /\ store[CartOf(i)].cartId = CartOf(i)
               /\ store[CartOf(i)].paymentToken = Req(i).paymentToken)

\* An order has been updated to PAYMENT_CAPTURED and still carries the
\* totals, token and creation time of its creation.
C17_Witness ==
  \E i \in Inv :
    /\ OwnRecordStored(i)
    /\ store[CartOf(i)].status = "PAYMENT_CAPTURED"
    /\ "transactionId" \in DOMAIN store[CartOf(i)]
    /\ TotalsAsPriced(store[CartOf(i)], calculatePricing(Req(i).items))
    /\ store[CartOf(i)].paymentToken = Req(i).paymentToken
    /\ store[CartOf(i)].createdAt = order[i][1].createdAt

\* ------------------------------------------------------------------ C20
\* The attributes of a record that stay inside the store.
Internal == {"paymentToken", "ttl"}

\* C20: the order handed back by getExistingOrder or createOrder and the body
\* of every response carry neither paymentToken nor ttl: an order has none of
\* the two attributes, and an error body has a code, a message and at most
\* an orderId.
C20_NoInternalFields ==
  \A i \in Inv :
    /\ order[i] # <<>> => DOMAIN order[i][1] \cap Internal = {}
    /\ response[i] # <<>>
         => /\ response[i][1].order # <<>>
                 => DOMAIN response[i][1].order[1] \cap Internal = {}
            /\ response[i][1].error # <<>>
                 => /\ DOMAIN response[i][1].error[1]
                         \subseteq {"code", "message", "orderId"}
                    /\ response[i][1].error[1].message \notin Tokens

\* An invocation returned an order read from a record that holds both a
\* paymentToken and a ttl.
C20_Witness ==
  \E i \in Inv :
    /\ FromPreCheck(i)
    /\ CartOf(i) \in DOMAIN store
    /\ Internal \subseteq DOMAIN store[CartOf(i)]
    /\ OrderOf(i).orderId = store[CartOf(i)].orderId
    /\ \E j \in Inv : LostRace(j) /\ HasOrder(j)

\* ------------------------------------------------------------------ C19
\* The body of the event is absent, is no JSON, lacks a field, has an empty
\* cart or has an item with no quantity.
Malformed(ev) ==
  \/ ev.kind # "json"
  \/ ~({"cartId", "items", "paymentToken"} \subseteq DOMAIN ev.value)
  \/ ev.value.items = <<>>
  \/ \E k \in 1..Len(ev.value.items) : ev.value.items[k].quantity < 1

\* C19: an invocation given a malformed body returns 400 with code
\* VALIDATION_ERROR in its first step, with no store request, no pricing, no
\* order creation and no gateway call; and no stored order has an empty list
\* of items.
C19_RejectStep(i) ==
  pc[i] = "idle" /\ pc'[i] # "idle" /\ Malformed(event'[i][1])
    => /\ pc'[i] = "done"
       /\ response'[i][1].statusCode = 400
       /\ ~response'[i][1].success
       /\ response'[i][1].error[1].code = "VALIDATION_ERROR"
       /\ UNCHANGED <<store, storeFails, gateway, pricing, order, request>>

C19_MalformedRejected ==
  /\ [][\A i \in Inv : C19_RejectStep(i)]_vars
  /\ [](\A i \in Inv :
          event[i] # <<>> /\ Malformed(event[i][1])
            => /\ Returned(i)
               /\ ~Valid(i)
               /\ StatusCode(i) = 400
               /\ pricing[i] = <<>> /\ order[i] = <<>>
               /\ GatewayCallsBy(i) = {})
  /\ [](\A c \in DOMAIN store : "items" \in DOMAIN store[c] => Len(store[c].items) >= 1)

\* An empty cart and a body that is no JSON have both been answered 400 while
\* another submission of the cart created an order; the store holds that
\* order only.
C19_Witness ==
  \E i, j, k \in Inv :
    /\ event[i] = <<Json([cartId |-> "cart-1", items |-> <<>>,
                          paymentToken |-> "tok_valid"])>>
    /\ StatusCode(i) = 400
    /\ response[i][1].error[1].message = "Cart must contain at least one item"
    /\ event[j] = <<BadJson>>
    /\ StatusCode(j) = 400
    /\ Created(k) /\ OwnRecordStored(k)

\* ------------------------------------------------------------------ C18
\* C18 as stated: updateOrderStatus for a cartId that has no record creates
\* none: a step that finds no record under a cartId leaves one there only
\* when it is createOrder's put, whose record is a whole order at CREATED.
C18_UpdateCreatesNoRecord ==
  [][\A c \in Carts :
       c \notin DOMAIN store /\ c \in DOMAIN store'
         => /\ "orderId" \in DOMAIN store'[c]
            /\ store'[c].status = "CREATED"]_vars

\* ----------------------------------------------------------------- C21
\* The body of the generic internal-error response, spelled out.
GenericInternalError(r) ==
  /\ r.statusCode = 500
  /\ r.success = FALSE
  /\ r.order = <<>>
  /\ DOMAIN r.error[1] = {"code", "message"}
  /\ r.error[1].code = "INTERNAL_ERROR"
  /\ r.error[1].message = "An unexpected error occurred"

\* The step with which a valid invocation returns on a failure that is
\* neither a validation error nor a payment decline: a storage error of the
\* request it was waiting for, a record that vanished before createOrder's
\* follow-up read, or a value thrown by the gateway that is no PaymentError.
C21_FailureStep(i) ==
  /\ Valid(i)
  /\ pc[i] # "done"
  /\ pc'[i] = "done"
  /\ \/ storeFails' = storeFails + 1
     \/ pc[i] = "createOrderRead" /\ GetItem(store, CartOf(i)) = <<>>
     \/ pc[i] = "updateFailed" /\ paymentError[i][1].name # "PaymentError"

Rank(p) ==
  CASE p = "idle" -> 0
    [] p = "getExistingOrder" -> 1
    [] p = "createOrder" -> 2
    [] p = "createOrderRead" -> 3
    [] p = "capturePayment" -> 3
    [] p = "updateCaptured" -> 4
    [] p = "updateFailed" -> 5
    [] p = "done" -> 6

\* A step in which a store request fails: the request is not applied, the
\* invocation that sent it leaves the await it was at, and either it has
\* returned the internal error or (for the update to PAYMENT_CAPTURED, which
\* sits inside the handler's try) the error has reached the handler's catch.
C22_FailureStep ==
  storeFails' # storeFails
    => /\ store' = store
       /\ \E i \in Inv :
            /\ pc[i] \in {"getExistingOrder", "createOrder", "createOrderRead",
                          "updateCaptured", "updateFailed"}
            /\ \A j \in Inv \ {i} : pc'[j] = pc[j]
            /\ IF pc[i] = "updateCaptured"
               THEN /\ pc'[i] = "updateFailed"
                    /\ paymentError'[i] # <<>>
                    /\ paymentError'[i][1].name # "PaymentError"
                    /\ response'[i] = <<>>
               ELSE /\ pc'[i] = "done"
                    /\ response'[i] = InternalError

C23_NoSharedCorrelationId ==
  \A i \in Inv :
    InFlight(i) => currentCorrelationId = setCorrelationId(requestId(i))

\* ----------------------------------------------------------------- C24
\* The items an invocation submitted, as its event carries them.
Submitted(i) == event[i][1].value.items
Priced(i) == pricing[i] # <<>>

RECURSIVE SumOver(_, _)
SumOver(f, n) == IF n = 0 THEN 0 ELSE f[n] + SumOver(f, n - 1)

C25_HalfCentTaxRoundsUp ==
  \A i \in Inv :
    Priced(i) /\ pricing[i][1].subtotal % 10 = 5
      => 100 * pricing[i][1].tax = 10 * pricing[i][1].subtotal + 50

\* ----------------------------------------------------------------- C26
\* C26: calculatePricing returns exactly one priced item per input item, in
\* the input order, each with the input's productId, name, price and quantity.
C26_ItemsPreserved ==
  \A i \in Inv :
    Priced(i) =>
      /\ Len(pricing[i][1].items) = Len(Submitted(i))
      /\ \A k \in 1..Len(Submitted(i)) :
           \A a \in CartItemKeys :
             /\ a \in DOMAIN pricing[i][1].items[k]
             /\ pricing[i][1].items[k][a] = Submitted(i)[k][a]

\* A cart of two items that differ in price and quantity has been priced.
C26_Witness ==
  \E i \in Inv :
    /\ Priced(i)
    /\ Len(Submitted(i)) = 2
    /\ Submitted(i)[1].price # Submitted(i)[2].price
    /\ Submitted(i)[1].quantity # Submitted(i)[2].quantity
    /\ pricing[i][1].items[2].price = Submitted(i)[2].price

\* ----------------------------------------------------------------- C27
SamePriceAndQuantity(xs, ys) ==
  /\ Len(xs) = Len(ys)
  /\ \A k \in 1..Len(xs) :
       xs[k].price = ys[k].price /\ xs[k].quantity = ys[k].quantity

SameTotals(p, q) ==
  /\ Len(p.items) = Len(q.items)
  /\ \A k \in 1..Len(p.items) : p.items[k].lineTotal = q.items[k].lineTotal
  /\ p.subtotal = q.subtotal
  /\ p.tax = q.tax
  /\ p.total = q.total

\* C27: the totals of a created order depend only on the price and quantity
\* of the submitted items: two requests whose items agree on price and
\* quantity are priced with the same lineTotals, subtotal, tax and total,
\* whatever else they carry (other products, a lineTotal or a total of the
\* client's), and the orders created for them are stored with those totals.
C27_TotalsFromPriceAndQuantity ==
  /\ \A i, j \in Inv :
       Priced(i) /\ Priced(j) /\ SamePriceAndQuantity(Submitted(i), Submitted(j))
         => SameTotals(pricing[i][1], pricing[j][1])
  /\ \A i \in Inv :
       Valid(i) /\ CartOf(i) \in DOMAIN store
         => SameTotals(store[CartOf(i)], pricing[i][1])

\* Two orders are stored for requests that agree on price and quantity, one
\* of which carried a lineTotal and a total of the client's.
C27_Witness ==
  /\ SamePriceAndQuantity(Submitted(1), Submitted(2))
  /\ "lineTotal" \in DOMAIN Submitted(2)[1]
  /\ "total" \in DOMAIN event[2][1].value
  /\ DOMAIN store = {"cart-1", "cart-2"}
  /\ store["cart-1"].total = store["cart-2"].total
  /\ store["cart-2"].total # 1

\* ----------------------------------------------------------------- C28
\* The fields of an order that are fixed when it is created.
Frozen == {"orderId", "cartId", "items", "subtotal", "tax", "total", "createdAt"}

\* The step with which a valid submission finds an order stored for its
\* cartId, in the idempotency read or in createOrder's follow-up read: it is
\* answered 200 with the stored order, nothing is written and the gateway is
\* not called, whatever items and paymentToken the submission carries.
C28_ReplayStep(i) ==
  ( /\ pc[i] \in {"getExistingOrder", "createOrderRead"}
    /\ pc'[i] # pc[i]
    /\ storeFails' = storeFails
    /\ CartOf(i) \in DOMAIN store )
    => /\ pc'[i] = "done"
       /\ StatusCode(i)' = 200
       /\ HasOrder(i)'
       /\ \A f \in Frozen \cup {"status"} : OrderOf(i)'[f] = store[CartOf(i)][f]
       /\ store' = store
       /\ gateway' = gateway

\* C28: the response to a submission for a cartId that already has an order
\* does not depend on the items or the paymentToken of that submission: it is
\* the stored order, so two such submissions made while the order is retained
\* receive the same order, with the items and totals priced from the request
\* that created it.
C28_ReplayIgnoresSubmission ==
  /\ [][\A i \in Inv : C28_ReplayStep(i)]_vars
  /\ [](\A i, j \in Inv :
          ( /\ i < j
            /\ ReturnedExisting(i) /\ ReturnedExisting(j)
            /\ CartOf(i) = CartOf(j)
            /\ NoExpiryBetween(i, j) )
            => \A f \in Frozen : OrderOf(i)[f] = OrderOf(j)[f])
  /\ [](\A i, k \in Inv :
          ( /\ ReturnedExisting(i)
            /\ Created(k)
            /\ order[k][1].orderId = OrderOf(i).orderId )
            => TotalsAsPriced(OrderOf(i), pricing[k][1]))

\* Two submissions that differ from the creating request, one in its items
\* and one in its paymentToken, have both received the order of the creating
\* request, whose total is not the total of the first one's own items.
C28_Witness ==
  \E k, i, j \in Inv :
    /\ Created(k)
    /\ ReturnedExisting(i) /\ ReturnedExisting(j) /\ i # j
    /\ Req(i).items # Req(k).items
    /\ Req(j).paymentToken # Req(k).paymentToken
    /\ OrderOf(i).orderId = order[k][1].orderId
    /\ OrderOf(j).orderId = order[k][1].orderId
    /\ OrderOf(i).total = OrderOf(j).total
    /\ OrderOf(i).total # calculatePricing(Req(i).items).total

\* ----------------------------------------------------------------- C29
\* The step in which the gateway is called: the call carries the orderId and
\* the total of the record stored for the cartId, which is the record the
\* calling invocation has just put, and the paymentToken stored with it,
\* which is that of the calling invocation's request.
C29_CallStep(i) ==
  \A g \in gateway' \ gateway :
    g.inv = i
      => /\ pc[i] = "capturePayment"
         /\ Created(i)
         /\ g.cartId = CartOf(i)
         /\ g.cartId \in DOMAIN store
         /\ g.orderId = store[g.cartId].orderId
         /\ g.orderId = <<"ord", uuidv4(i)>>
         /\ g.amount = store[g.cartId].total
         /\ g.amount = calculatePricing(Req(i).items).total
         /\ g.paymentToken = store[g.cartId].paymentToken
         /\ g.paymentToken = Req(i).paymentToken

\* C29: whenever the gateway is called, it is called with the orderId and the
\* total persisted on the order that the calling invocation has just created
\* for the cartId, and with the paymentToken of the request that won the
\* creation; an invocation that lost the creation never calls it.
C29_GatewayArguments ==
  /\ [][\A i \in Inv : C29_CallStep(i)]_vars
  /\ [](\A g \in gateway :
          /\ Created(g.inv)
          /\ g.orderId = order[g.inv][1].orderId
          /\ g.amount = order[g.inv][1].total
          /\ g.paymentToken = Req(g.inv).paymentToken
          /\ \A j \in Inv : LostRace(j) => GatewayCallsBy(j) = {})

\* The gateway was called with the total of the winner's cart and the
\* winner's token while a concurrent request with another cart and another
\* token lost the creation.
C29_Witness ==
  \E g \in gateway : \E j \in Inv :
    /\ LostRace(j)
    /\ CartOf(j) = g.cartId
    /\ Req(j).paymentToken # g.paymentToken
    /\ calculatePricing(Req(j).items).total # g.amount
    /\ g.amount = pricing[g.inv][1].total

\* ----------------------------------------------------------------- C30
\* An item with price <= 0, a price that is not finite, quantity < 1 or a
\* quantity that is no integer.
BadItem(item) ==
  \/ item.price <= 0
  \/ ~IsFinite(item.price)
  \/ item.quantity < 1
  \/ ~IsInteger(item)

HasBadItem(ev) ==
  /\ ev.kind = "json"
  /\ "items" \in DOMAIN ev.value
  /\ \E k \in 1..Len(ev.value.items) : BadItem(ev.value.items[k])

\* The first step of an invocation whose body has such an item: it returns
\* 400 with code VALIDATION_ERROR, and neither pricing nor the store nor the
\* gateway is reached.
C30_RejectStep(i) ==
  pc[i] = "idle" /\ pc'[i] # "idle" /\ HasBadItem(event'[i][1])
    => /\ pc'[i] = "done"
       /\ response'[i][1].statusCode = 400
       /\ ~response'[i][1].success
       /\ response'[i][1].error[1].code = "VALIDATION_ERROR"
       /\ DOMAIN response'[i][1].error[1] = {"code", "message"}
       /\ UNCHANGED <<store, storeFails, gateway, pricing, order, request>>

\* C30: a request with an item of price <= 0, of a price that is not finite,
\* of quantity < 1 or of a quantity that is no integer is rejected with a
\* ValidationError (400) and reaches neither pricing nor the store; every
\* item of a stored order has a positive finite price and a whole quantity of
\* at least 1.
C30_BadItemRejected ==
  /\ [][\A i \in Inv : C30_RejectStep(i)]_vars
  /\ [](\A i \in Inv :
          event[i] # <<>> /\ HasBadItem(event[i][1])
            => /\ Returned(i)
               /\ ~Valid(i)
               /\ StatusCode(i) = 400
               /\ pricing[i] = <<>> /\ order[i] = <<>>
               /\ GatewayCallsBy(i) = {})
  /\ [](\A i \in Inv :
          Valid(i) => \A k \in 1..Len(Req(i).items) : ~BadItem(Req(i).items[k]))
  /\ [](\A c \in DOMAIN store :
          "items" \in DOMAIN store[c]
            => \A k \in 1..Len(store[c].items) : ~BadItem(store[c].items[k]))

\* A request whose second item has quantity 1.5 has been answered 400 with
\* the item's index and issue, after another request had created the order of
\* the cart, which is stored as it was.
C30_Witness ==
  \E i, k \in Inv :
    /\ event[i] # <<>>
    /\ HasBadItem(event[i][1])
    /\ Len(event[i][1].value.items) = 2
    /\ ~IsInteger(event[i][1].value.items[2])
    /\ StatusCode(i) = 400
    /\ response[i][1].error[1].message =
         "Item at index 1: Item quantity must be a whole number"
    /\ Created(k) /\ OwnRecordStored(k)
    /\ store[CartOf(k)].status = "PAYMENT_CAPTURED"

\* ----------------------------------------------------------------- C31
\* C31: whenever the idempotency read or a lost create race finds and returns
\* an existing order, that order is complete or terminal (PAYMENT_CAPTURED or
\* PAYMENT_FAILED), also when the invocation that won is still in flight.
C31_ExistingOrderTerminal ==
  \A i \in Inv :
    ReturnedExisting(i)
      => OrderOf(i).status \in {"PAYMENT_CAPTURED", "PAYMENT_FAILED"}

\* ----------------------------------------------------------------- C32
\* A step that calls the gateway or changes a stored record that was there
\* before: it is taken by an invocation that created the order of the cartId
\* (createOrder returned isExisting = false), on the record it put.
C32_ActStep ==
  \A c \in Carts :
    ( \/ \E g \in gateway' \ gateway : g.cartId = c
      \/ (c \in DOMAIN store /\ c \in DOMAIN store' /\ store'[c] # store[c]) )
    => \E i \in Inv :
         /\ pc[i] \in {"capturePayment", "updateCaptured", "updateFailed"}
         /\ pc'[i] # pc[i]
         /\ CartOf(i) = c
         /\ Created(i)
         /\ OwnRecordStored(i)

\* C32: only the invocation that created the order for a cartId ever calls
\* the gateway or updateOrderStatus for that cartId; an invocation that found
\* an existing order, or lost the create race, never reaches the capture or a
\* status update.
C32_OnlyCreatorActs ==
  /\ [][C32_ActStep]_vars
  /\ [](\A i \in Inv :
          pc[i] \in {"capturePayment", "updateCaptured", "updateFailed"}
            => Created(i))
  /\ [](\A i \in Inv :
          Valid(i) /\ ~Created(i)
            => /\ GatewayCallsBy(i) = {}
               /\ paymentResult[i] = <<>>
               /\ paymentError[i] = <<>>)

\* For one cart, the creator has captured and updated the record, while one
\* submission lost the create race and another was answered from the
\* idempotency read; neither of the two called the gateway.
C32_Witness ==
  \E k, j, i \in Inv :
    /\ Created(k) /\ Captured(k) /\ OwnRecordStored(k)
    /\ store[CartOf(k)].status = "PAYMENT_CAPTURED"
    /\ LostRace(j) /\ Returned(j) /\ CartOf(j) = CartOf(k)
    /\ FromPreCheck(i) /\ CartOf(i) = CartOf(k)
    /\ GatewayCallsBy(i) \cup GatewayCallsBy(j) = {}

\* ------------------------------------------------------------------- C33
\* Every invocation that leaves createOrder's follow-up read does so in one
\* step that ends it, whatever the read found.
C33_ReadStep ==
  \A i \in Inv :
    (pc[i] = "createOrderRead" /\ pc'[i] # pc[i] /\ pc'[i] # "abandoned")
      => IF order'[i] = <<>>
         THEN /\ pc'[i] = "done"
              /\ response'[i] = InternalError
              /\ response'[i][1].statusCode = 500
              /\ response'[i][1].order = <<>>
              /\ store' = store
              /\ gateway' = gateway
              /\ GatewayCallsBy(i)' = {}
              /\ paymentResult'[i] = <<>>
         ELSE pc'[i] = "done" /\ isExisting'[i]

\* C33: when createOrder's conditional put is rejected and the follow-up read
\* finds no record, createOrder fails instead of returning an order, the
\* handler answers 500, and that invocation makes no gateway call and no
\* status update.
C33_VanishedRecordIs500 ==
  /\ [][C33_ReadStep]_vars
  /\ [](\A i \in Inv :
          (Returned(i) /\ pricing[i] # <<>> /\ order[i] = <<>>)
            => /\ StatusCode(i) = 500
               /\ GatewayCallsBy(i) = {}
               /\ paymentResult[i] = <<>>
               /\ paymentError[i] = <<>>)

\* An invocation answered 500 after its put was rejected and its read missed
\* the record the store holds, with no storage error anywhere.
C33_Witness ==
  \E i \in Inv :
    /\ Returned(i)
    /\ pricing[i] # <<>>
    /\ order[i] = <<>>
    /\ storeFails = 0
    /\ StatusCode(i) = 500
    /\ CartOf(i) \in DOMAIN store
    /\ GatewayCallsBy(i) = {}

\* ------------------------------------------------------------------- C34
\* The invocation was cut off, or returned a failure (402 or 500).
FailedOrAbandoned(i) ==
  /\ Valid(i)
  /\ \/ pc[i] = "abandoned"
     \/ Returned(i) /\ StatusCode(i) \in {402, 500}

\* j is a retry of i: a valid submission with i's cartId begun after i was
\* cut off or had failed.
RetryAfterFailure(i, j) ==
  /\ FailedOrAbandoned(i)
  /\ Valid(j) /\ Sequential(i, j) /\ CartOf(i) = CartOf(j)

\* The retry adds no gateway call to one of the earlier invocation and no
\* order to one the earlier invocation created.
NoSecond(i, j) ==
  /\ GatewayCallsBy(i) # {} => GatewayCallsBy(j) = {}
  /\ Created(i) => ~Created(j)

\* C34 as stated: a retry after an abandoned or failed invocation never causes
\* a second gateway call or a second order.
C34_RetryNeverSecond ==
  \A i, j \in Inv : RetryAfterFailure(i, j) => NoSecond(i, j)

\* A valid submission enters at the idempotency read.
C34_EntryStep ==
  \A j \in Inv :
    (pc[j] = "idle" /\ pc'[j] # "idle" /\ request'[j] # <<>>)
      => pc'[j] = "getExistingOrder"

\* C34 amended: a retry enters at the idempotency read, and while the cart's
\* record has not expired from the table since the earlier invocation began,
\* the retry causes no second gateway call and no second order, whatever the
\* earlier invocation left behind.
C34_RetryNeverSecondWhileRetained ==
  /\ [][C34_EntryStep]_vars
  /\ [](\A i, j \in Inv :
          RetryAfterFailure(i, j) /\ NoExpiryBetween(i, j) => NoSecond(i, j))

\* An invocation created the order, had the gateway capture and was cut off
\* before recording it; a retry, with no expiry in between, was answered from
\* the idempotency read with the order still CREATED and called no gateway.
C34_Witness ==
  \E i, j \in Inv :
    /\ RetryAfterFailure(i, j) /\ NoExpiryBetween(i, j)
    /\ pc[i] = "abandoned"
    /\ Created(i) /\ Captured(i)
    /\ FromPreCheck(j)
    /\ StatusCode(j) = 200
    /\ OrderOf(j).status = "CREATED"
    /\ GatewayCallsBy(j) = {}

\* ------------------------------------------------------------------- C35
\* Whenever the record under a cartId is created, changed or removed, the
\* step is one of an invocation whose request carries that cartId, issuing
\* its put or one of its updates, or it is the table's expiry of that record.
C35_FrameStep ==
  \A c \in Carts :
    GetItem(store, c)' # GetItem(store, c)
      => \/ expiries'[c] # expiries[c]
         \/ \E i \in Inv :
              /\ pc[i] \in {"createOrder", "updateCaptured", "updateFailed"}
              /\ pc'[i] # pc[i]
              /\ CartOf(i) = c

\* C35: create and status update touch only the record keyed by the cartId
\* of their own request, and the order an invocation holds or returns is the
\* one stored under its own cartId, under every interleaving of checkouts
\* for different cartIds.
C35_OwnRecordOnly ==
  /\ [][C35_FrameStep]_vars
  /\ [](\A c \in DOMAIN store : store[c].cartId = c)
  /\ [](\A i \in Inv :
          /\ order[i] # <<>> => order[i][1].cartId = CartOf(i)
          /\ (Valid(i) /\ HasOrder(i)) => OrderOf(i).cartId = CartOf(i))

\* Two checkouts for different cartIds ran concurrently; each created its own
\* order and recorded its own outcome, and each record holds the orderId and
\* the status its own checkout gave it.
C35_Witness ==
  \E i, j \in Inv :
    /\ Concurrent(i, j)
    /\ Returned(i) /\ Returned(j)
    /\ Valid(i) /\ Valid(j)
    /\ CartOf(i) # CartOf(j)
    /\ Created(i) /\ Created(j)
    /\ StatusCode(i) = 402 /\ StatusCode(j) = 201
    /\ CartOf(i) \in DOMAIN store /\ CartOf(j) \in DOMAIN store
    /\ store[CartOf(i)].orderId = order[i][1].orderId
    /\ store[CartOf(j)].orderId = order[j][1].orderId
    /\ store[CartOf(i)].status = "PAYMENT_FAILED"
    /\ store[CartOf(j)].status = "PAYMENT_CAPTURED"

\* ------------------------------------------------------------------- C36
\* What a stored record shows to the outside: all of it but the payment
\* token and the expiry time.
PublicFields(record) ==
  [a \in DOMAIN record \ {"paymentToken", "ttl"} |-> record[a]]

\* A call of getExistingOrder: the argument or the result it left changed.
C36_LookupStep ==
  <<request[1], order[1]>>' # <<request[1], order[1]>>
    => /\ store' = store
       /\ expiries' = expiries
       /\ request'[1] # <<>>
       /\ LET cartId == request'[1][1].cartId
          IN order'[1] = IF cartId \in DOMAIN store
                         THEN <<PublicFields(store[cartId])>>
                         ELSE <<>>

\* C36: getExistingOrder leaves every record as it was; it returns null when
\* the table holds no record for the cartId and the public fields of the
\* stored record otherwise.
C36_LookupReadOnly == [][C36_LookupStep]_vars

\* A lookup returned the public fields of a captured order whose record is
\* still in the table with its payment token and ttl, and a record of the
\* other cart is in the table too.
C36_Witness ==
  /\ request[1] # <<>>
  /\ order[1] # <<>>
  /\ DOMAIN store = Carts
  /\ "paymentToken" \in DOMAIN store[request[1][1].cartId]
  /\ "transactionId" \in DOMAIN store[request[1][1].cartId]
  /\ order[1][1] = PublicFields(store[request[1][1].cartId])
  /\ order[1][1].status = "PAYMENT_CAPTURED"

\* ------------------------------------------------------------------- C37
\* The awaits an invocation may be at next, given where it is: validation,
\* then the idempotency lookup, then pricing and the create, then the
\* capture, then the status update.
C37_After(p) ==
  CASE p = "idle" -> {"getExistingOrder", "done"}
    [] p = "getExistingOrder" -> {"createOrder", "done"}
    [] p = "createOrder" -> {"createOrderRead", "capturePayment", "done"}
    [] p = "createOrderRead" -> {"done"}
    [] p = "capturePayment" -> {"updateCaptured", "updateFailed"}
    [] p = "updateCaptured" -> {"updateFailed", "done"}
    [] p = "updateFailed" -> {"done"}
    [] p = "done" -> {}

\* One step of an invocation follows the handler's order and does the work
\* of the step it leaves, and of no other.
C37_OrderStep ==
  \A i \in Inv :
    pc'[i] # pc[i]
      => /\ pc'[i] \in C37_After(pc[i])
         /\ request'[i] # request[i] <=> (pc[i] = "idle" /\ pc'[i] # "done")
         /\ pricing'[i] # pricing[i]
              <=> (pc[i] = "getExistingOrder" /\ pc'[i] = "createOrder")
         /\ order'[i] # order[i]
              <=> \/ pc[i] = "createOrder" /\ pc'[i] = "capturePayment"
                  \/ pc[i] = "createOrderRead" /\ response'[i][1].statusCode = 200
         /\ GatewayCallsBy(i)' # GatewayCallsBy(i) <=> pc[i] = "capturePayment"
         /\ store' # store
              => \/ pc[i] = "createOrder" /\ pc'[i] = "capturePayment"
                 \/ pc[i] \in {"updateCaptured", "updateFailed"} /\ pc'[i] = "done"

\* The body of the submission fails validation (or is no JSON at all).
InvalidBody(i) ==
  /\ event[i] # <<>>
  /\ \/ event[i][1].kind = "text"
     \/ event[i][1].kind = "absent"
     \/ event[i][1].kind = "json" /\ ~CheckoutRequestSchema(event[i][1].value)

\* C37: the handler runs validate, idempotency lookup, pricing, create,
\* capture, status update in that order; a submission whose body is invalid
\* is answered 400 without an order, whether or not its cartId has one.
C37_FixedOrder ==
  /\ [][C37_OrderStep]_vars
  /\ [](\A i \in Inv :
          InvalidBody(i)
            => /\ Returned(i)
               /\ StatusCode(i) = 400
               /\ response[i][1].order = <<>>
               /\ request[i] = <<>>)

\* The table holds the captured order of cart-1, and a later submission for
\* cart-1 whose body fails validation was answered 400.
C37_Witness ==
  \E k, i \in Inv :
    /\ Returned(k) /\ Valid(k) /\ Created(k) /\ StatusCode(k) = 201
    /\ Sequential(k, i)
    /\ Returned(i)
    /\ InvalidBody(i)
    /\ event[i][1].kind = "json"
    /\ event[i][1].value.cartId = CartOf(k)
    /\ CartOf(k) \in DOMAIN store
    /\ store[CartOf(k)].status = "PAYMENT_CAPTURED"
    /\ StatusCode(i) = 400

\* ------------------------------------------------------------------- C38
\* The record of the order invocation i created is in the table with a final
\* payment status.
OrderSettled(i) ==
  /\ Valid(i) /\ Created(i)
  /\ CartOf(i) \in DOMAIN store
  /\ store[CartOf(i)].orderId = order[i][1].orderId
  /\ store[CartOf(i)].status \in {"PAYMENT_CAPTURED", "PAYMENT_FAILED"}

\* A status update of the creator that the store applies settles the order.
C38_UpdateStep ==
  \A i \in Inv :
    (pc[i] \in {"updateCaptured", "updateFailed"} /\ pc'[i] # pc[i]
       /\ pc'[i] # "abandoned" /\ storeFails' = storeFails)
      => /\ pc'[i] = "done"
         /\ OrderSettled(i)'

\* C38: the order an invocation created leaves CREATED for PAYMENT_CAPTURED
\* or PAYMENT_FAILED, whether the gateway captured, declined or failed:
\* every status update of the creator that the store applies settles the
\* order, and a creator in flight comes to such an update unless it is cut
\* off or a store request fails with a storage error.
C38_OrderSettles ==
  /\ [][C38_UpdateStep]_vars
  /\ \A i \in Inv :
       (InFlight(i) /\ Created(i))
         ~> \/ OrderSettled(i)
            \/ pc[i] = "abandoned"
            \/ Returned(i) /\ StatusCode(i) = 500 /\ storeFails > 0

\* The gateway failed with an unclassified error for the creator of an order;
\* no store request failed, the creator answered 500 and its order is
\* PAYMENT_FAILED in the table.
C38_Witness ==
  \E i \in Inv :
    /\ Returned(i) /\ Valid(i) /\ Created(i)
    /\ \E g \in GatewayCallsBy(i) : g.outcome = "error"
    /\ storeFails = 0
    /\ StatusCode(i) = 500
    /\ OrderSettled(i)
    /\ store[CartOf(i)].status = "PAYMENT_FAILED"

\* ------------------------------------------------------------------- C39
\* The statuses the handler answers with.
HandlerStatuses == {200, 201, 400, 402, 500}

\* A step that ends an invocation leaves a response with one of the
\* handler's statuses, and an invocation that has not ended has none.
C39_ReturnStep ==
  \A i \in Inv :
    /\ (pc'[i] = "done" /\ pc[i] # "done")
         => /\ response'[i] # <<>>
            /\ response'[i][1].statusCode \in HandlerStatuses
    /\ pc'[i] # "done" => response'[i] = <<>>

\* C39: every invocation comes to its end by returning a response whose
\* status is 200, 201, 400, 402 or 500; validation, the store and the gateway
\* may fail, but no failure leaves the handler other than as a response.
C39_AlwaysResponds ==
  /\ [][C39_ReturnStep]_vars
  /\ \A i \in Inv : pc[i] # "idle" ~> Returned(i)
  /\ [](\A i \in Inv :
          Returned(i) => /\ response[i] # <<>>
                         /\ StatusCode(i) \in HandlerStatuses)

\* Three invocations have returned, one after a validation failure, one
\* after a storage error and one after an unclassified gateway error, with
\* 400, 500 and 500.
C39_Witness ==
  \E i, j, k \in Inv :
    /\ Returned(i) /\ Returned(j) /\ Returned(k)
    /\ ~Valid(i) /\ StatusCode(i) = 400
    /\ Valid(j) /\ storeFails > 0 /\ StatusCode(j) = 500 /\ GatewayCallsBy(j) = {}
    /\ Valid(k) /\ StatusCode(k) = 500
    /\ \E g \in GatewayCallsBy(k) : g.outcome = "error"

\* ------------------------------------------------------------------- C40
\* C40: capturePayment throws a PaymentError carrying the orderId it was
\* given exactly when the token is tok_fail, tok_declined or
\* tok_insufficient_funds; for every other token it returns status captured
\* with a transactionId, and no two captures return the same transactionId.
C40_CaptureByToken ==
  /\ \A g \in gateway :
       IF g.paymentToken \in {"tok_fail", "tok_declined", "tok_insufficient_funds"}
       THEN /\ g.returned = <<>>
            /\ g.threw # <<>>
            /\ g.threw[1].name = "PaymentError"
            /\ g.threw[1].orderId = g.orderId
       ELSE /\ g.threw = <<>>
            /\ g.returned # <<>>
            /\ g.returned[1].status = "captured"
            /\ g.returned[1].transactionId[1] = "txn"
  /\ \A g, h \in gateway :
       (g.call # h.call /\ g.returned # <<>> /\ h.returned # <<>>)
         => g.returned[1].transactionId # h.returned[1].transactionId

\* Three calls: tok_insufficient_funds was refused with the orderId of the
\* call, and two other tokens, one of them the failure token in capitals,
\* were captured for the same order under two transactionIds.
C40_Witness ==
  \E f, g, h \in gateway :
    /\ f.paymentToken = "tok_insufficient_funds"
    /\ f.threw # <<>> /\ f.threw[1].orderId = f.orderId
    /\ g.paymentToken = "TOK_FAIL" /\ h.paymentToken = "tok_valid_visa"
    /\ g.orderId = h.orderId /\ g.amount = h.amount
    /\ g.returned # <<>> /\ h.returned # <<>>
    /\ g.returned[1].transactionId # h.returned[1].transactionId

============================================================================
